---- MODULE Spec2Model ----
(***************************************************************************)
(* Model of the chat orchestrator of jupyterlite-ai (src/src/chat-handler  *)
(* .ts): ChatHandler.sendMessage, the chat-mode and agent-mode stream      *)
(* consumers, stopStreaming, clearMessages, and the provider registry's    *)
(* state they read.                                                        *)
(*                                                                         *)
(* Text is a sequence of one-element strings, so that concatenation is \o  *)
(* and startsWith/trim are computed on the characters.  A multi-character  *)
(* string stands for a text whose inner characters play no role.           *)
(* A message body is a sequence of atoms: text atoms and rendered blocks.  *)
(***************************************************************************)
EXTENDS Integers, Sequences, FiniteSets, TLC

(***************************************************************************)
(* Bounds                                                                  *)
(***************************************************************************)
MaxCalls == 2
MaxOverlaps == 1
MaxEvents == 3
MaxSetProvider == 1
MaxClock == 1

(***************************************************************************)
(* Text helpers                                                            *)
(***************************************************************************)
CLEAR == <<"/", "c", "l", "e", "a", "r">>

\* String.prototype.startsWith
StartsWith(s, p) == Len(s) >= Len(p) /\ SubSeq(s, 1, Len(p)) = p

\* content.trim() is non-empty: some character is not white space
Whitespace == {" ", "\n"}
TrimNonEmpty(s) == \E i \in 1..Len(s) : s[i] \notin Whitespace

\* a body holding the text s; the empty string is the empty body
Txt(s) == IF s = <<>> THEN <<>> ELSE <<[blk |-> "text", s |-> s]>>

\* string concatenation of two bodies.  (Here and in the recursive operators
\* below the arguments are bound once, as values, before the body uses them:
\* TLC would otherwise evaluate an argument expression again at each use.)
Cat(a, b) ==
  LET Join(x, y) ==
        IF x # <<>> /\ y # <<>> /\ x[Len(x)].blk = "text" /\ y[1].blk = "text"
        THEN SubSeq(x, 1, Len(x) - 1) \o Txt(x[Len(x)].s \o y[1].s) \o Tail(y)
        ELSE x \o y
  IN CHOOSE r \in {Join(x, y) : x \in {a}, y \in {b}} : TRUE

(***************************************************************************)
(* History entries (langchain BaseMessage)                                 *)
(***************************************************************************)
SystemMessage(text) ==
  [role |-> "system", content |-> text, tool_calls |-> <<>>, name |-> ""]
HumanMessage(text) ==
  [role |-> "human", content |-> text, tool_calls |-> <<>>, name |-> ""]
AIMessage(text) ==
  [role |-> "ai", content |-> text, tool_calls |-> <<>>, name |-> ""]
AIToolMessage(text, calls) ==
  [role |-> "ai", content |-> text, tool_calls |-> calls, name |-> ""]
ToolMessage(name, text) ==
  [role |-> "tool", content |-> text, tool_calls |-> <<>>, name |-> name]

\* mergeMessageRuns: consecutive entries of the same type are merged into
\* one, their string contents joined by a newline; tool entries are kept.
RECURSIVE MergeInto(_, _)
MergeInto(merged, rest) ==
  IF rest = <<>> THEN merged
  ELSE LET curr == Head(rest)
           n == Len(merged)
       IN IF n = 0 \/ curr.role = "tool" \/ curr.role # merged[n].role
          THEN MergeInto(Append(merged, curr), Tail(rest))
          ELSE MergeInto(
                 [merged EXCEPT ![n] =
                    [role |-> curr.role,
                     content |-> merged[n].content \o <<"\n">> \o curr.content,
                     tool_calls |-> merged[n].tool_calls \o curr.tool_calls,
                     name |-> merged[n].name]],
                 Tail(rest))
mergeMessageRuns(msgs) == MergeInto(<<>>, msgs)

(***************************************************************************)
(* Provider registry (external collaborator): the state the handler reads  *)
(***************************************************************************)
DEFAULT_CHAT_SYSTEM_PROMPT == <<"DEFAULT_CHAT_SYSTEM_PROMPT">>
DEFAULT_AGENT_SYSTEM_PROMPT == <<"DEFAULT_AGENT_SYSTEM_PROMPT">>
defaultErrorMessage == <<"AI provider not configured">>

NoProvider ==
  [name |-> "None", chatModel |-> FALSE, agent |-> FALSE, chatError |-> <<>>]
Registries ==
  { NoProvider,
    [name |-> "None", chatModel |-> FALSE, agent |-> FALSE,
     chatError |-> <<"chat error">>],
    [name |-> "OpenAI", chatModel |-> TRUE, agent |-> FALSE, chatError |-> <<>>],
    [name |-> "Anthropic", chatModel |-> TRUE, agent |-> FALSE, chatError |-> <<>>],
    [name |-> "OpenAI", chatModel |-> TRUE, agent |-> TRUE, chatError |-> <<>>],
    [name |-> "Anthropic", chatModel |-> TRUE, agent |-> TRUE, chatError |-> <<>>] }

\* the errors a backend stream raises: a plain Error, the abort error raised
\* when the signal is aborted, and a vendor API error wrapping the cause
PlainError == [message |-> <<"failed">>, nested |-> FALSE]
AbortError == [message |-> <<"Aborted">>, nested |-> FALSE]
ApiError == [message |-> <<"failed">>, nested |-> TRUE]
BackendErrors == {PlainError, ApiError}

\* getErrorMessage(name, error): error.error.error.message for Anthropic
\* (a TypeError when error.error is undefined), error.message for the other
\* known providers, else 'Unknown provider'.
getErrorMessage(name, error) ==
  IF name = "Anthropic"
  THEN IF error.nested
       THEN [threw |-> FALSE, text |-> error.message]
       ELSE [threw |-> TRUE, text |-> <<>>]
  ELSE IF name \in {"MistralAI", "ChromeAI", "OpenAI", "WebLLM"}
       THEN [threw |-> FALSE, text |-> error.message]
       ELSE [threw |-> FALSE, text |-> <<"Unknown provider">>]

\* AIProviderRegistry.formatErrorMessage: the error formatter of the backend
\* in use
formatErrorMessage(r, reason) == getErrorMessage(r.name, reason)

\* ChatHandler.systemPrompt
systemPrompt(r) ==
  IF r.agent THEN DEFAULT_AGENT_SYSTEM_PROMPT ELSE DEFAULT_CHAT_SYSTEM_PROMPT

(***************************************************************************)
(* Displayed messages (AbstractChatModel.messages)                         *)
(***************************************************************************)
\* IChatMessage; turn records which sendMessage call published it
ChatMessage(id, body, sender, t) ==
  [id |-> id, body |-> body, sender |-> sender, turn |-> t]

\* messageAdded: a message whose id is already displayed replaces it,
\* any other is inserted after the displayed ones
messageAdded(msgs, m) ==
  IF \E i \in 1..Len(msgs) : msgs[i].id = m.id
  THEN [i \in 1..Len(msgs) |-> IF msgs[i].id = m.id THEN m ELSE msgs[i]]
  ELSE Append(msgs, m)

\* body of an error message: `**${error}**`
ErrorBody(text) == Txt(<<"*", "*">> \o text \o <<"*", "*">>)

(***************************************************************************)
(* Inputs                                                                  *)
(***************************************************************************)
Bodies ==
  { CLEAR,
    CLEAR \o <<" ", "x">>,
    <<"H", "e", "l", "l", "o">> }

\* the text deltas a chat stream yields
Deltas == { <<"H", "i">>, <<" ", "t", "h", "e", "r", "e">> }

\* the events an agent stream yields (streamMode 'updates'): a chunk with
\* the messages of an agent step or of a tool step
ToolCallA == [name |-> "read_file", args |-> <<"{\"path\": \"a.py\"}">>]
ResultA == <<"{\"success\": true}">>
AgentChunk(msgs) == [key |-> "agent", messages |-> msgs]
ToolsChunk(msgs) == [key |-> "tools", messages |-> msgs]
Chunks ==
  { AgentChunk(<<AIToolMessage(<<>>, <<ToolCallA>>)>>),
    ToolsChunk(<<ToolMessage("read_file", ResultA)>>),
    AgentChunk(<<AIMessage(<<"d", "o", "n", "e">>)>>) }

(***************************************************************************)
(* State                                                                   *)
(***************************************************************************)
VARIABLES
  history,       \* ChatHandler._history
  messages,      \* the displayed messages (AbstractChatModel.messages)
  writers,       \* the active writers last passed to updateWriters
  controller,    \* ChatHandler._controller: 0 is null, else the controller
                 \* created by the dispatched call of that number
  aborted,       \* the controllers whose signal is aborted
  errorMessage,  \* ChatHandler._errorMessage
  reg,           \* the provider registry's current state
  turns,         \* one record per dispatched sendMessage call, with the
                 \* locals of its stream consumer
  returned,      \* what the latest sendMessage call returned before its
                 \* first await: "false", or "pending" for a promise
  streamCalls,   \* the backend streams invoked so far
  clock,         \* Date.now()
  nextId,        \* the next UUID
  nEvents,       \* stream events consumed so far
  nSet,          \* provider changes so far
  nOverlap,      \* calls dispatched while another was still streaming
  currentWord,   \* IInputModel.currentWord of the chat input: {} when
                 \* undefined, else the set of the one word
  completions,   \* what listCommandCompletions returned: {} before it is
                 \* called, else the set of the one list
  toolCall,      \* the tool invocation at hand: {} when there is none, else
                 \* the set of the one invocation
  toolReturn,    \* how the tool's execution function ended: {} before it
                 \* has, else the set of the one outcome
  saveCall,      \* the SettingConnector.save call at hand: {} when there is
                 \* none, else the set of the one call
  saveReturn,    \* how that call ended, with what it passed to the
                 \* underlying connector: {} before it has
  toolContext,   \* the options of the createProviderTools call at hand: {}
                 \* when there is none
  providerTools, \* the tool map that call returned: {} before it has, else
                 \* the set of the one map
  fetchRun       \* the run of the browser fetch tool's execution function:
                 \* its input, the requests it issued, the timers it
                 \* started, and what it returned

vars == <<history, messages, writers, controller, aborted, errorMessage, reg,
          turns, returned, streamCalls, clock, nextId, nEvents, nSet, nOverlap,
          currentWord, completions, toolCall, toolReturn, saveCall,
          saveReturn, toolContext, providerTools, fetchRun>>

\* the settings connector, the provider-defined tools and the browser fetch
utilVars == <<saveCall, saveReturn, toolContext, providerTools, fetchRun>>

\* no run of the browser fetch tool
NoFetch ==
  [pc |-> "none", url |-> <<>>, timeoutMs |-> {}, requests |-> <<>>,
   timers |-> <<>>, aborted |-> FALSE, result |-> ""]

\* the chat input, the tool invocation and the plugin's other parts, which
\* the chat handler does not touch
localVars == <<currentWord, completions, toolCall, toolReturn, utilVars>>

\* the registry, and the counters of the bounds
regVars == <<errorMessage, reg, nSet, nOverlap>>
ctlVars == <<writers, controller, aborted>>

personaName == "AI"

\* the record of one dispatched sendMessage call
NewTurn(kind, body) ==
  [kind |-> kind,             \* "chat" or "agent"
   pc |-> "streaming",        \* "streaming" until the promise settles
   result |-> "pending",      \* "pending", "true", "false" or "rejected"
   body |-> body,
   request |-> <<>>,          \* the messages passed to the backend
   hIdx |-> 0,                \* where its Human entry sits in history
                              \* (0: removed by a clear)
   botId |-> 0,               \* botMsg.id / currentMessageId
   content |-> <<>>,          \* chat mode: content
   consumed |-> <<>>,         \* the deltas or events consumed so far
   items |-> <<>>,            \* agent mode: chronologicalItems
   finalResponse |-> <<>>,
   messageContent |-> <<>>,
   isStreaming |-> FALSE]

\* the locals of a stream consumer are gone once its promise has settled
Stub(kind, result) ==
  [NewTurn(kind, <<>>) EXCEPT !.pc = "settled", !.result = result]

HandlerInit ==
  /\ history = <<>>
  /\ messages = <<>>
  /\ writers = {}
  /\ controller = 0
  /\ aborted = {}
  /\ errorMessage = <<>>
  /\ reg = NoProvider
  /\ turns = <<>>
  /\ returned = "none"
  /\ streamCalls = <<>>
  /\ clock = 0
  /\ nextId = 1
  /\ nEvents = 0
  /\ nSet = 0
  /\ nOverlap = 0

\* nothing is typed in the chat input and no tool is invoked
Init ==
  /\ HandlerInit
  /\ currentWord = {}
  /\ completions = {}
  /\ toolCall = {}
  /\ toolReturn = {}
  /\ saveCall = {}
  /\ saveReturn = {}
  /\ toolContext = {}
  /\ providerTools = {}
  /\ fetchRun = NoFetch

Streaming(t) == t \in 1..Len(turns) /\ turns[t].pc = "streaming"

\* a clear removes every entry: no turn's Human entry is in history any more
Forget(ts) == [i \in 1..Len(ts) |-> [ts[i] EXCEPT !.hIdx = 0]]

\* the promise of turn t settles with the given result
Settle(t, result) ==
  turns' = [turns EXCEPT ![t] = Stub(turns[t].kind, result)]

(***************************************************************************)
(* AIProviderRegistry.setProvider, which emits providerChanged; the        *)
(* handler's listener copies the registry's chatError                      *)
(***************************************************************************)
SetProvider(r) ==
  /\ nSet < MaxSetProvider
  /\ r # reg
  /\ reg' = r
  /\ errorMessage' = r.chatError
  /\ nSet' = nSet + 1
  /\ UNCHANGED <<nOverlap, history, messages, ctlVars, turns, returned,
                 streamCalls, clock, nextId, nEvents, localVars>>

(***************************************************************************)
(* ChatHandler.clearMessages                                               *)
(***************************************************************************)
ClearMessages ==
  /\ messages' = <<>>
  /\ history' = <<>>
  /\ turns' = Forget(turns)
  /\ UNCHANGED <<ctlVars, regVars, localVars, returned, streamCalls, clock,
                 nextId, nEvents>>

(***************************************************************************)
(* ChatHandler.sendMessage, up to its first await                          *)
(***************************************************************************)
\* the request built for the backend
BuildRequest(h, r, body) ==
  Append(mergeMessageRuns(<<SystemMessage(systemPrompt(r))>> \o h),
         HumanMessage(body))

\* SendClear without `this._history = []`
SendClear_KeepsHistory(body) ==
  /\ messages' = <<>>
  /\ history' = history
  /\ turns' = turns
  /\ returned' = "false"
  /\ UNCHANGED <<ctlVars, streamCalls, nextId, nOverlap>>

SendClear(body) ==
  /\ messages' = <<>>
  /\ history' = <<>>
  /\ turns' = Forget(turns)
  /\ returned' = "false"
  /\ UNCHANGED <<ctlVars, streamCalls, nextId, nOverlap>>

\* SendNoBackend publishing the error message before the user's message
SendNoBackend_ErrorFirst(body) ==
  LET msg == ChatMessage(nextId, Txt(body), "User", 0)
      errorMsg ==
        ChatMessage(nextId + 1,
                    ErrorBody(IF errorMessage # <<>> THEN errorMessage
                              ELSE defaultErrorMessage),
                    "ERROR", 0)
  IN /\ messages' = messageAdded(messageAdded(messages, errorMsg), msg)
     /\ nextId' = nextId + 2
     /\ returned' = "false"
     /\ UNCHANGED <<history, ctlVars, streamCalls, turns, nOverlap>>

\* SendNoBackend recording the user's turn in the history
SendNoBackend_RecordsHuman(body) ==
  LET msg == ChatMessage(nextId, Txt(body), "User", 0)
      errorMsg ==
        ChatMessage(nextId + 1,
                    ErrorBody(IF errorMessage # <<>> THEN errorMessage
                              ELSE defaultErrorMessage),
                    "ERROR", 0)
  IN /\ messages' = messageAdded(messageAdded(messages, msg), errorMsg)
     /\ history' = Append(history, HumanMessage(body))
     /\ nextId' = nextId + 2
     /\ returned' = "false"
     /\ UNCHANGED <<ctlVars, streamCalls, turns, nOverlap>>

SendNoBackend(body) ==
  LET msg == ChatMessage(nextId, Txt(body), "User", 0)
      errorMsg ==
        ChatMessage(nextId + 1,
                    ErrorBody(IF errorMessage # <<>> THEN errorMessage
                              ELSE defaultErrorMessage),
                    "ERROR", 0)
  IN /\ messages' = messageAdded(messageAdded(messages, msg), errorMsg)
     /\ nextId' = nextId + 2
     /\ returned' = "false"
     /\ UNCHANGED <<history, ctlVars, streamCalls, turns, nOverlap>>

\* SendDispatch passing every request to the chat model's text stream
SendDispatch_AlwaysChat(body) ==
  LET t == Len(turns) + 1
      msg == ChatMessage(nextId, Txt(body), "User", t)
      mode == IF reg.agent THEN "agent" ELSE "chat"
      request == BuildRequest(history, reg, body)
  IN /\ messages' = messageAdded(messages, msg)
     /\ history' = Append(history, HumanMessage(body))
     /\ writers' = {personaName}
     /\ controller' = t
     /\ nextId' = nextId + 2
     /\ streamCalls' = Append(streamCalls, [turn |-> t, backend |-> "chat"])
     /\ turns' = Append(turns,
          [NewTurn(mode, body) EXCEPT
             !.request = request, !.hIdx = Len(history) + 1,
             !.botId = nextId + 1])
     /\ returned' = "pending"
     /\ IF \E u \in 1..Len(turns) : Streaming(u)
        THEN nOverlap < MaxOverlaps /\ nOverlap' = nOverlap + 1
        ELSE nOverlap' = nOverlap
     /\ UNCHANGED aborted

\* SendDispatch without `this._history.push(newMessage)`
SendDispatch_NoAppend(body) ==
  LET t == Len(turns) + 1
      msg == ChatMessage(nextId, Txt(body), "User", t)
      mode == IF reg.agent THEN "agent" ELSE "chat"
      request == BuildRequest(history, reg, body)
  IN /\ messages' = messageAdded(messages, msg)
     /\ history' = history
     /\ writers' = {personaName}
     /\ controller' = t
     /\ nextId' = nextId + 2
     /\ streamCalls' = Append(streamCalls, [turn |-> t, backend |-> mode])
     /\ turns' = Append(turns,
          [NewTurn(mode, body) EXCEPT
             !.request = request, !.hIdx = Len(history) + 1,
             !.botId = nextId + 1])
     /\ returned' = "pending"
     /\ IF \E u \in 1..Len(turns) : Streaming(u)
        THEN nOverlap < MaxOverlaps /\ nOverlap' = nOverlap + 1
        ELSE nOverlap' = nOverlap
     /\ UNCHANGED aborted

SendDispatch(body) ==
  LET t == Len(turns) + 1
      msg == ChatMessage(nextId, Txt(body), "User", t)
      mode == IF reg.agent THEN "agent" ELSE "chat"
      request == BuildRequest(history, reg, body)
  IN /\ messages' = messageAdded(messages, msg)
     /\ history' = Append(history, HumanMessage(body))
     /\ writers' = {personaName}
     /\ controller' = t
     /\ nextId' = nextId + 2
     /\ streamCalls' = Append(streamCalls, [turn |-> t, backend |-> mode])
     /\ turns' = Append(turns,
          [NewTurn(mode, body) EXCEPT
             !.request = request, !.hIdx = Len(history) + 1,
             !.botId = nextId + 1])
     /\ returned' = "pending"
     /\ IF \E u \in 1..Len(turns) : Streaming(u)
        THEN nOverlap < MaxOverlaps /\ nOverlap' = nOverlap + 1
        ELSE nOverlap' = nOverlap
     /\ UNCHANGED aborted

\* the calls that publish a message are bounded: those that dispatch by
\* MaxCalls, the others with the UUIDs they hand out; at most MaxOverlaps of
\* them are dispatched while an earlier one is still streaming
SendMessage(body) ==
  /\ IF StartsWith(body, CLEAR) THEN SendClear(body)
     ELSE /\ Len(turns) < MaxCalls
          /\ nextId <= 2 * MaxCalls
          /\ IF ~reg.chatModel THEN SendNoBackend(body)
             ELSE SendDispatch(body)
  /\ UNCHANGED <<errorMessage, reg, nSet, clock, nEvents, localVars>>

(***************************************************************************)
(* ChatHandler.stopStreaming                                               *)
(***************************************************************************)
StopStreaming ==
  /\ aborted' = IF controller # 0 THEN aborted \cup {controller} ELSE aborted
  /\ UNCHANGED <<history, messages, writers, controller, regVars, localVars, turns,
                 returned, streamCalls, clock, nextId, nEvents>>

(***************************************************************************)
(* ChatHandler._sentChatMessage: the for-await loop, its completion, and   *)
(* the catch and finally blocks.  The backend stream is a langchain        *)
(* runnable stream: once its signal is aborted the pending read rejects    *)
(* with the abort error and nothing more is yielded.                       *)
(***************************************************************************)
\* the errors the stream of turn t can raise now
Raisable(t) == IF t \in aborted THEN {AbortError} ELSE BackendErrors

\* ChatChunk publishing the message before the delta is added to its body
ChatChunk_PublishesStale(t, d) ==
  /\ Streaming(t) /\ turns[t].kind = "chat"
  /\ t \notin aborted
  /\ nEvents < MaxEvents
  /\ LET content == turns[t].content \o d
         botMsg == ChatMessage(turns[t].botId, Txt(turns[t].content),
                               personaName, t)
     IN /\ messages' = messageAdded(messages, botMsg)
        /\ turns' = [turns EXCEPT ![t].content = content,
                                  ![t].consumed = Append(@, d)]
  /\ nEvents' = nEvents + 1
  /\ UNCHANGED <<history, ctlVars, regVars, localVars, returned, streamCalls, clock,
                 nextId>>

\* ChatChunk with `content = chunk` in place of `content += chunk`
ChatChunk_Overwrites(t, d) ==
  /\ Streaming(t) /\ turns[t].kind = "chat"
  /\ t \notin aborted
  /\ nEvents < MaxEvents
  /\ LET content == d
         botMsg == ChatMessage(turns[t].botId, Txt(content), personaName, t)
     IN /\ messages' = messageAdded(messages, botMsg)
        /\ turns' = [turns EXCEPT ![t].content = content,
                                  ![t].consumed = Append(@, d)]
  /\ nEvents' = nEvents + 1
  /\ UNCHANGED <<history, ctlVars, regVars, localVars, returned, streamCalls, clock,
                 nextId>>

\* one delta is consumed
ChatChunk(t, d) ==
  /\ Streaming(t) /\ turns[t].kind = "chat"
  /\ t \notin aborted
  /\ nEvents < MaxEvents
  /\ LET content == turns[t].content \o d
         botMsg == ChatMessage(turns[t].botId, Txt(content), personaName, t)
     IN /\ messages' = messageAdded(messages, botMsg)
        /\ turns' = [turns EXCEPT ![t].content = content,
                                  ![t].consumed = Append(@, d)]
  /\ nEvents' = nEvents + 1
  /\ UNCHANGED <<history, ctlVars, regVars, localVars, returned, streamCalls,
                 clock, nextId>>

\* Finally without `this._controller = null`
Finally_KeepsController(t) ==
  /\ writers' = {}
  /\ controller' = controller
  /\ aborted' = aborted \ {t}

\* the finally block; the turn's controller is then out of reach
Finally(t) ==
  /\ writers' = {}
  /\ controller' = 0
  /\ aborted' = aborted \ {t}

\* ChatEnd assigning the history where the code pushes onto it
ChatEnd_ReplacesHistory(t) ==
  /\ Streaming(t) /\ turns[t].kind = "chat"
  /\ t \notin aborted
  /\ history' = <<AIMessage(turns[t].content)>>
  /\ Settle(t, "true")
  /\ Finally(t)
  /\ UNCHANGED <<messages, regVars, localVars, returned, streamCalls, clock, nextId,
                 nEvents>>

\* the stream completes
ChatEnd(t) ==
  /\ Streaming(t) /\ turns[t].kind = "chat"
  /\ t \notin aborted
  /\ history' = Append(history, AIMessage(turns[t].content))
  /\ Settle(t, "true")
  /\ Finally(t)
  /\ UNCHANGED <<messages, regVars, localVars, returned, streamCalls, clock, nextId,
                 nEvents>>

\* Catch republishing the turn's message with an empty body
Catch_ErasesPartial(t, reason) ==
  LET error == formatErrorMessage(reg, reason)
      errorMsg == ChatMessage(nextId, ErrorBody(error.text), "ERROR", t)
      erased == ChatMessage(turns[t].botId, <<>>, personaName, t)
  IN IF error.threw
     THEN /\ Settle(t, "rejected")
          /\ UNCHANGED <<messages, nextId>>
     ELSE /\ messages' = messageAdded(messageAdded(messages, erased), errorMsg)
          /\ nextId' = nextId + 1
          /\ Settle(t, "false")

\* the catch block: the error message is published unless the formatter
\* itself throws, in which case the promise rejects
Catch(t, reason) ==
  LET error == formatErrorMessage(reg, reason)
      errorMsg == ChatMessage(nextId, ErrorBody(error.text), "ERROR", t)
  IN IF error.threw
     THEN /\ Settle(t, "rejected")
          /\ UNCHANGED <<messages, nextId>>
     ELSE /\ messages' = messageAdded(messages, errorMsg)
          /\ nextId' = nextId + 1
          /\ Settle(t, "false")

\* ChatCatch committing the partial text as an AI entry
ChatCatch_CommitsPartial(t, reason) ==
  /\ Streaming(t) /\ turns[t].kind = "chat"
  /\ reason \in Raisable(t)
  /\ Catch(t, reason)
  /\ Finally(t)
  /\ history' = Append(history, AIMessage(turns[t].content))
  /\ UNCHANGED <<regVars, localVars, returned, streamCalls, clock, nEvents>>

\* ChatCatch for a consumer that goes on awaiting the stream after an abort
ChatCatch_HangsOnAbort(t, reason) ==
  /\ Streaming(t) /\ turns[t].kind = "chat"
  /\ t \notin aborted
  /\ reason \in Raisable(t)
  /\ Catch(t, reason)
  /\ Finally(t)
  /\ UNCHANGED <<history, regVars, localVars, returned, streamCalls, clock, nEvents>>

ChatCatch(t, reason) ==
  /\ Streaming(t) /\ turns[t].kind = "chat"
  /\ reason \in Raisable(t)
  /\ Catch(t, reason)
  /\ Finally(t)
  /\ UNCHANGED <<history, regVars, localVars, returned, streamCalls, clock, nEvents>>

(***************************************************************************)
(* ChatHandler._sendAgentMessage: updateMessage                            *)
(***************************************************************************)
\* InsertSorted placing an item before the items of the same timestamp
RECURSIVE InsertSorted_Unstable(_, _)
InsertSorted_Unstable(sorted, item) ==
  IF sorted = <<>> THEN <<item>>
  ELSE IF sorted[Len(sorted)].timestamp < item.timestamp
       THEN Append(sorted, item)
       ELSE Append(InsertSorted_Unstable(SubSeq(sorted, 1, Len(sorted) - 1),
                                         item),
                   sorted[Len(sorted)])

\* [...items].sort((a, b) => a.timestamp - b.timestamp): a stable sort
RECURSIVE InsertSorted(_, _)
InsertSorted(sorted, item) ==
  LET Insert(s, x) ==
        IF s = <<>> THEN <<x>>
        ELSE IF s[Len(s)].timestamp <= x.timestamp
             THEN Append(s, x)
             ELSE Append(InsertSorted(SubSeq(s, 1, Len(s) - 1), x), s[Len(s)])
  IN CHOOSE r \in {Insert(s, x) : s \in {sorted}, x \in {item}} : TRUE
RECURSIVE SortFrom(_, _)
SortFrom(sorted, rest) ==
  LET Sort(s, r) ==
        IF r = <<>> THEN s ELSE SortFrom(InsertSorted(s, Head(r)), Tail(r))
  IN CHOOSE r \in {Sort(s, x) : s \in {sorted}, x \in {rest}} : TRUE
SortByTimestamp(items) == SortFrom(<<>>, items)

\* JSON.parse(content).command, where the content is a JSON object that
\* declares one
JsonCommand(content) ==
  IF content = <<"{\"command\": \"notebook:run-cell\"}">>
  THEN <<"notebook:run-cell">>
  ELSE <<>>

\* the title of a tool-result block
ResultTitle(data) ==
  IF JsonCommand(data.content) # <<>> THEN JsonCommand(data.content)
  ELSE IF data.name # <<>> THEN data.name
  ELSE <<"Tool Result">>

\* RenderItem with a thinking block that is always expanded
RenderItem_AlwaysOpen(item, items) ==
  CASE item.type = "tool_call" ->
         <<[blk |-> "tool_call", name |-> item.data.name,
            args |-> item.data.args]>>
    [] item.type = "tool_result" ->
         <<[blk |-> "tool_result", title |-> ResultTitle(item.data),
            content |-> item.data.content]>>
    [] item.type = "thinking" ->
         IF Len(items) = 1 THEN Txt(item.data.content)
         ELSE <<[blk |-> "thinking", open |-> TRUE,
                 content |-> item.data.content]>>
    [] OTHER -> <<>>

\* the text one chronological item is rendered to
RenderItem(item, items) ==
  CASE item.type = "tool_call" ->
         <<[blk |-> "tool_call", name |-> item.data.name,
            args |-> item.data.args]>>
    [] item.type = "tool_result" ->
         <<[blk |-> "tool_result", title |-> ResultTitle(item.data),
            content |-> item.data.content]>>
    [] item.type = "thinking" ->
         IF Len(items) = 1 THEN Txt(item.data.content)
         ELSE <<[blk |-> "thinking",
                 open |-> \A i \in 1..Len(items) : items[i].type = "thinking",
                 content |-> item.data.content]>>
    [] OTHER -> <<>>

RECURSIVE JoinRendered(_, _)
JoinRendered(sorted, items) ==
  LET Join(s, all) ==
        IF s = <<>> THEN <<>>
        ELSE Cat(RenderItem(Head(s), all), JoinRendered(Tail(s), all))
  IN CHOOSE r \in {Join(s, all) : s \in {sorted}, all \in {items}} : TRUE

AI_IS_THINKING == Txt(<<"_AI is thinking..._">>)

\* RenderBody putting the final response before the chronological section
RenderBody_FinalFirst(items, finalResponse, isStreaming) ==
  LET chronologicalSection == JoinRendered(SortByTimestamp(items), items)
      finalContent == Cat(Txt(finalResponse), chronologicalSection)
  IN IF finalContent # <<>> THEN finalContent
     ELSE IF isStreaming THEN AI_IS_THINKING ELSE <<>>

\* the body updateMessage publishes
RenderBody(items, finalResponse, isStreaming) ==
  LET chronologicalSection == JoinRendered(SortByTimestamp(items), items)
      finalContent == Cat(chronologicalSection, Txt(finalResponse))
  IN IF finalContent # <<>> THEN finalContent
     ELSE IF isStreaming THEN AI_IS_THINKING ELSE <<>>

\* updateMessage, on the locals L of the consumer of turn t
updateMessage(L, t) ==
  [L EXCEPT !.messages =
     messageAdded(@, ChatMessage(L.botId,
                                 RenderBody(L.items, L.finalResponse,
                                            L.isStreaming),
                                 personaName, t))]

(***************************************************************************)
(* ChatHandler._sendAgentMessage: one event of the for-await loop          *)
(***************************************************************************)
IsToolItem(item) == item.type \in {"tool_call", "tool_result"}

\* ToolCallItems keeping only the first call of an AI message
ToolCallItems_FirstOnly(calls, now) ==
  [i \in 1..(IF Len(calls) > 0 THEN 1 ELSE 0) |->
     [type |-> "tool_call", data |-> calls[i], timestamp |-> now]]

\* the tool calls of an AI message become items
ToolCallItems(calls, now) ==
  [i \in 1..Len(calls) |->
     [type |-> "tool_call", data |-> calls[i], timestamp |-> now]]

\* one text content of an AI message
HandleContent(L, content, now, t) ==
  IF ~TrimNonEmpty(content) THEN L
  ELSE LET L1 ==
             IF \E i \in 1..Len(L.items) : IsToolItem(L.items[i])
             THEN LET mc == L.messageContent \o content
                  IN IF \E i \in 1..Len(L.items) : L.items[i].type = "thinking"
                     THEN LET k == CHOOSE i \in 1..Len(L.items) :
                                     /\ L.items[i].type = "thinking"
                                     /\ \A j \in 1..(i - 1) :
                                          L.items[j].type # "thinking"
                          IN [L EXCEPT !.messageContent = mc,
                                       !.items[k].data = [content |-> mc]]
                     ELSE [L EXCEPT !.messageContent = mc,
                                    !.items = Append(@,
                                      [type |-> "thinking",
                                       data |-> [content |-> mc],
                                       timestamp |-> now])]
             ELSE [L EXCEPT !.finalResponse = @ \o content]
       IN updateMessage([L1 EXCEPT !.isStreaming = TRUE], t)

\* HandleTool recording the tool result without rendering
HandleTool_NoRender(L, m, now, t) ==
  [L EXCEPT !.items = Append(@,
              [type |-> "tool_result",
               data |-> [name |-> IF m.name # "" THEN <<m.name>>
                                  ELSE <<"Unknown">>,
                         content |-> m.content],
               timestamp |-> now]),
            !.isStreaming = TRUE]

\* a ToolMessage becomes a tool_result item
HandleTool(L, m, now, t) ==
  updateMessage(
    [L EXCEPT !.items = Append(@,
                [type |-> "tool_result",
                 data |-> [name |-> IF m.name # "" THEN <<m.name>>
                                    ELSE <<"Unknown">>,
                           content |-> m.content],
                 timestamp |-> now]),
              !.isStreaming = TRUE], t)

\* HandleAI classifying the text before the entry's tool calls are recorded
HandleAI_ContentFirst(L, m, now, t) ==
  LET L1 == IF m.content # <<>> THEN HandleContent(L, m.content, now, t) ELSE L
  IN IF Len(m.tool_calls) > 0
     THEN updateMessage(
            [L1 EXCEPT !.items = @ \o ToolCallItems(m.tool_calls, now),
                       !.isStreaming = TRUE], t)
     ELSE L1

\* an AIMessage: its tool calls, then its content (a string)
HandleAI(L, m, now, t) ==
  LET L1 == IF Len(m.tool_calls) > 0
            THEN updateMessage(
                   [L EXCEPT !.items = @ \o ToolCallItems(m.tool_calls, now),
                             !.isStreaming = TRUE], t)
            ELSE L
  IN IF m.content # <<>> THEN HandleContent(L1, m.content, now, t) ELSE L1

\* ForEachMessage pushing only the messages of agent steps onto the history
RECURSIVE ForEachMessage_SkipsToolSteps(_, _, _, _, _)
ForEachMessage_SkipsToolSteps(L, key, msgs, now, t) ==
  IF msgs = <<>> THEN L
  ELSE LET m == Head(msgs)
           L0 == IF key = "agent" THEN [L EXCEPT !.history = Append(@, m)]
                 ELSE L
           L1 == IF m.role = "ai" /\ key = "agent" THEN HandleAI(L0, m, now, t)
                 ELSE IF m.role = "tool" THEN HandleTool(L0, m, now, t)
                 ELSE L0
       IN ForEachMessage_SkipsToolSteps(L1, key, Tail(msgs), now, t)

\* agentMessages.forEach / toolMessages.forEach
RECURSIVE ForEachMessage(_, _, _, _, _)
ForEachMessage(L, key, msgs, now, t) ==
  IF msgs = <<>> THEN L
  ELSE LET m == Head(msgs)
           L0 == [L EXCEPT !.history = Append(@, m)]
           L1 == IF m.role = "ai" /\ key = "agent" THEN HandleAI(L0, m, now, t)
                 ELSE IF m.role = "tool" THEN HandleTool(L0, m, now, t)
                 ELSE L0
       IN ForEachMessage(L1, key, Tail(msgs), now, t)

\* the locals of the consumer of turn t, with the fields of the handler
\* its loop body writes
Locals(t) ==
  [history |-> history, messages |-> messages, botId |-> turns[t].botId,
   items |-> turns[t].items, finalResponse |-> turns[t].finalResponse,
   messageContent |-> turns[t].messageContent,
   isStreaming |-> turns[t].isStreaming]

\* one event is consumed; Date.now() has not gone back since the last one
AgentEvent(t, chunk, now) ==
  /\ Streaming(t) /\ turns[t].kind = "agent"
  /\ t \notin aborted
  /\ nEvents < MaxEvents
  /\ now >= clock /\ now <= MaxClock
  /\ LET L == IF chunk.key \in {"agent", "tools"}
              THEN ForEachMessage(Locals(t), chunk.key, chunk.messages, now, t)
              ELSE Locals(t)
     IN /\ history' = L.history
        /\ messages' = L.messages
        /\ turns' = [turns EXCEPT ![t].items = L.items,
                                  ![t].finalResponse = L.finalResponse,
                                  ![t].messageContent = L.messageContent,
                                  ![t].isStreaming = L.isStreaming,
                                  ![t].consumed = Append(@, chunk)]
  /\ clock' = now
  /\ nEvents' = nEvents + 1
  /\ UNCHANGED <<ctlVars, regVars, localVars, returned, streamCalls, nextId>>

\* AgentEnd rendering with a sort that does not keep the arrival order of
\* the items of one timestamp
RECURSIVE SortFrom_Unstable(_, _)
SortFrom_Unstable(sorted, rest) ==
  IF rest = <<>> THEN sorted
  ELSE SortFrom_Unstable(InsertSorted_Unstable(sorted, Head(rest)), Tail(rest))
AgentEnd_SortsUnstably(t) ==
  /\ Streaming(t) /\ turns[t].kind = "agent"
  /\ t \notin aborted
  /\ LET L == Locals(t)
         section == JoinRendered(SortFrom_Unstable(<<>>, L.items), L.items)
         finalContent == Cat(section, Txt(L.finalResponse))
         body == IF finalContent # <<>> THEN finalContent
                 ELSE IF L.isStreaming THEN AI_IS_THINKING ELSE <<>>
     IN messages' = messageAdded(messages,
                                 ChatMessage(L.botId, body, personaName, t))
  /\ Settle(t, "true")
  /\ Finally(t)
  /\ UNCHANGED <<history, regVars, localVars, returned, streamCalls, clock, nextId,
                 nEvents>>

\* the stream completes: the final updateMessage
AgentEnd(t) ==
  /\ Streaming(t) /\ turns[t].kind = "agent"
  /\ t \notin aborted
  /\ messages' = updateMessage(Locals(t), t).messages
  /\ Settle(t, "true")
  /\ Finally(t)
  /\ UNCHANGED <<history, regVars, localVars, returned, streamCalls, clock, nextId,
                 nEvents>>

AgentCatch(t, reason) ==
  /\ Streaming(t) /\ turns[t].kind = "agent"
  /\ reason \in Raisable(t)
  /\ Catch(t, reason)
  /\ Finally(t)
  /\ UNCHANGED <<history, regVars, localVars, returned, streamCalls, clock, nEvents>>

(***************************************************************************)
(* ChatHandler.ClearCommandProvider                                        *)
(***************************************************************************)
\* the characters \w matches, among those of the words below
WordChars == {"c", "l", "e", "a", "r", "x", "_"}

\* the longest run of \w characters the text starts with
RECURSIVE WordRun(_)
WordRun(s) ==
  IF s # <<>> /\ Head(s) \in WordChars THEN <<Head(s)>> \o WordRun(Tail(s))
  ELSE <<>>

\* SlashMatch stopping after the slash
SlashMatch_SlashOnly(word) ==
  IF word # <<>> /\ Head(word) = "/" THEN {<<"/">>} ELSE {}

\* word.match(/^\/\w*/)?.[0]: {} when the word does not match
SlashMatch(word) ==
  IF word # <<>> /\ Head(word) = "/"
  THEN {<<"/">> \o WordRun(Tail(word))}
  ELSE {}

\* ClearCommandProvider._slash_commands
slash_commands ==
  << [name |-> CLEAR, replaceWith |-> CLEAR,
      description |-> <<"Clear the chat">>] >>

\* listCommandCompletions(inputModel), on inputModel.currentWord
listCommandCompletions(word) ==
  LET match == UNION {SlashMatch(w) : w \in word}
      Starts(cmd) == \E m \in match : StartsWith(cmd.name, m)
  IN IF match = {} THEN <<>> ELSE SelectSeq(slash_commands, Starts)

\* the provider is asked for the completions of the current word
ListCommandCompletions ==
  /\ completions = {}
  /\ completions' = {listCommandCompletions(currentWord)}
  /\ UNCHANGED <<history, messages, ctlVars, regVars, turns, returned,
                 streamCalls, clock, nextId, nEvents, currentWord, toolCall,
                 toolReturn, utilVars>>

\* the words of the chat input: what is typed of '/clear' or of 'clear',
\* followed by nothing or by other characters
Words ==
  { SubSeq(CLEAR, i, j) \o rest :
      i \in {1, 2}, j \in 0..Len(CLEAR),
      rest \in {<<>>, <<"x">>, <<"_">>, <<"-">>, <<"-", "c">>, <<"/">>, <<" ">>} }
CurrentWords == {{}} \cup {{w} : w \in Words}

(***************************************************************************)
(* The tools (src/tools, and the generic notebook-command tool): the       *)
(* execution function of each, on the outcome of the command or request    *)
(* it runs                                                                 *)
(***************************************************************************)
\* the error a rejected command carries
CommandError == [message |-> <<"command failed">>]

\* `${error}` of an Error
ErrorToString(error) == <<"Error: ">> \o error.message

\* the execution function returns a payload, or throws
Returns(command, result, error) ==
  [threw |-> FALSE, command |-> command, result |-> result, error |-> error]
Throws(error) ==
  [threw |-> TRUE, command |-> "", result |-> <<>>, error |-> error.message]

\* createNewNotebook: the command is awaited outside any try block
createNewNotebook(outcome) ==
  IF outcome = "rejects" THEN Throws(CommandError)
  ELSE Returns("createNewNotebook", <<"Notebook created successfully">>, <<>>)

\* renameNotebook: the command is awaited outside any try block
renameNotebook(outcome) ==
  IF outcome = "rejects" THEN Throws(CommandError)
  ELSE Returns("renameNotebook", <<"Notebook renamed successfully">>, <<>>)

\* addMarkdownCell: its commands run inside try, the catch returns a payload
addMarkdownCell(outcome) ==
  IF outcome = "rejects"
  THEN Returns("addMarkdownCell", <<"Failed to add markdown cell">>, CommandError.message)
  ELSE Returns("addMarkdownCell", <<"Markdown cell added successfully">>, <<>>)

\* addCodeCell: its commands run inside try, the catch returns a payload
addCodeCell(outcome) ==
  IF outcome = "rejects"
  THEN Returns("addCodeCell", <<"Failed to add code cell">>, CommandError.message)
  ELSE Returns("addCodeCell", <<"Code cell added successfully">>, <<>>)

\* getNumberOfCells: runs no command
getNumberOfCells(outcome) == Returns("getNumberOfCells", <<"requires access to the notebook tracker">>, <<>>)

\* getCellTypeAndSource: runs no command
getCellTypeAndSource(outcome) == Returns("getCellTypeAndSource", <<"requires access to the notebook tracker">>, <<>>)

\* getCellOutput: runs no command
getCellOutput(outcome) == Returns("getCellOutput", <<"requires access to the notebook tracker">>, <<>>)

\* setCellTypeAndSource: the command is awaited outside any try block
setCellTypeAndSource(outcome) ==
  IF outcome = "rejects" THEN Throws(CommandError)
  ELSE Returns("setCellTypeAndSource", <<"Cell type and source updated successfully">>, <<>>)

\* deleteCell: the command is awaited outside any try block
deleteCell(outcome) ==
  IF outcome = "rejects" THEN Throws(CommandError)
  ELSE Returns("deleteCell", <<"Cell deleted successfully">>, <<>>)

\* insertCell: its commands run inside try, the catch returns a payload
insertCell(outcome) ==
  IF outcome = "rejects"
  THEN Returns("insertCell", <<"Failed to insert cell">>, CommandError.message)
  ELSE Returns("insertCell", <<"Cell inserted successfully">>, <<>>)

\* runCell: the command is awaited outside any try block
runCell(outcome) ==
  IF outcome = "rejects" THEN Throws(CommandError)
  ELSE Returns("runCell", <<"Cell executed successfully">>, <<>>)

\* saveNotebook: the command is awaited outside any try block
saveNotebook(outcome) ==
  IF outcome = "rejects" THEN Throws(CommandError)
  ELSE Returns("saveNotebook", <<"Notebook saved successfully">>, <<>>)

\* createNewPythonFile: the command is awaited outside any try block
createNewPythonFile(outcome) ==
  IF outcome = "rejects" THEN Throws(CommandError)
  ELSE Returns("createNewPythonFile", <<"Python file created successfully">>, <<>>)

\* getFileContent: its command runs inside try, the catch returns a payload
getFileContent(outcome) ==
  IF outcome = "rejects"
  THEN Returns("getFileContent", <<>>, <<"Failed to access file: ">> \o ErrorToString(CommandError))
  ELSE Returns("getFileContent", <<"File opened successfully">>, <<>>)

\* setFileContent: its command runs inside try, the catch returns a payload
setFileContent(outcome) ==
  IF outcome = "rejects"
  THEN Returns("setFileContent", <<>>, <<"Failed to update file: ">> \o ErrorToString(CommandError))
  ELSE Returns("setFileContent", <<"file opened for manual editing">>, <<>>)

\* createNewFile: the command is awaited outside any try block
createNewFile(outcome) ==
  IF outcome = "rejects" THEN Throws(CommandError)
  ELSE Returns("createNewFile", <<"file created successfully">>, <<>>)

\* deleteFile: its command runs inside try, the catch returns a payload
deleteFile(outcome) ==
  IF outcome = "rejects"
  THEN Returns("deleteFile", <<>>, <<"Failed to delete file: ">> \o ErrorToString(CommandError))
  ELSE Returns("deleteFile", <<"File deleted successfully">>, <<>>)

\* renameFile: its command runs inside try, the catch returns a payload
renameFile(outcome) ==
  IF outcome = "rejects"
  THEN Returns("renameFile", <<>>, <<"Failed to rename file: ">> \o ErrorToString(CommandError))
  ELSE Returns("renameFile", <<"File renamed successfully">>, <<>>)

\* copyFile: its command runs inside try, the catch returns a payload
copyFile(outcome) ==
  IF outcome = "rejects"
  THEN Returns("copyFile", <<>>, <<"Failed to copy file: ">> \o ErrorToString(CommandError))
  ELSE Returns("copyFile", <<"File copied successfully">>, <<>>)

\* listFiles: its command runs inside try, the catch returns a payload
listFiles(outcome) ==
  IF outcome = "rejects"
  THEN Returns("listFiles", <<>>, <<"Failed to list files: ">> \o ErrorToString(CommandError))
  ELSE Returns("listFiles", <<"Directory navigation completed">>, <<>>)

\* the generic notebook-command tool: the command is awaited outside any try
\* block
notebook(outcome) ==
  IF outcome = "rejects" THEN Throws(CommandError)
  ELSE Returns("notebook", <<"result">>, <<>>)

\* the browser fetch tool: the URL is parsed and fetched inside try blocks
\* whose catch returns a payload with success: false and an error type
createBrowserFetchTool(outcome) ==
  CASE outcome = "invalid_url" ->
         Returns("browser_fetch", <<>>, <<"invalid_url">>)
    [] outcome = "unsupported_protocol" ->
         Returns("browser_fetch", <<>>, <<"unsupported_protocol">>)
    [] outcome = "http_error" ->
         Returns("browser_fetch", <<"content">>, <<"http_error">>)
    [] outcome = "aborts" ->
         Returns("browser_fetch", <<>>, <<"timeout">>)
    [] outcome = "rejects" ->
         Returns("browser_fetch", <<>>, <<"network_or_cors">>)
    [] OTHER -> Returns("browser_fetch", <<"content">>, <<>>)

\* the tools that run commands, those that run none, and the fetch tool
CommandTools ==
  { "createNewNotebook", "renameNotebook", "addMarkdownCell", "addCodeCell",
    "setCellTypeAndSource", "deleteCell", "insertCell", "runCell",
    "saveNotebook", "createNewPythonFile", "getFileContent", "setFileContent",
    "createNewFile", "deleteFile", "renameFile", "copyFile", "listFiles",
    "notebook" }
StaticTools == {"getNumberOfCells", "getCellTypeAndSource", "getCellOutput"}
FetchOutcomes ==
  {"ok", "invalid_url", "unsupported_protocol", "http_error", "aborts",
   "rejects"}

\* the invocations: a tool and the outcome of what it runs
ToolCalls ==
  [tool : CommandTools, outcome : {"ok", "rejects"}]
    \cup [tool : StaticTools, outcome : {"ok"}]
    \cup [tool : {"browser_fetch"}, outcome : FetchOutcomes]

\* the execution function of the invoked tool
Execute(call) ==
  CASE call.tool = "browser_fetch" -> createBrowserFetchTool(call.outcome)
    [] call.tool = "notebook" -> notebook(call.outcome)
    [] call.tool = "createNewNotebook" -> createNewNotebook(call.outcome)
    [] call.tool = "renameNotebook" -> renameNotebook(call.outcome)
    [] call.tool = "addMarkdownCell" -> addMarkdownCell(call.outcome)
    [] call.tool = "addCodeCell" -> addCodeCell(call.outcome)
    [] call.tool = "getNumberOfCells" -> getNumberOfCells(call.outcome)
    [] call.tool = "getCellTypeAndSource" -> getCellTypeAndSource(call.outcome)
    [] call.tool = "getCellOutput" -> getCellOutput(call.outcome)
    [] call.tool = "setCellTypeAndSource" -> setCellTypeAndSource(call.outcome)
    [] call.tool = "deleteCell" -> deleteCell(call.outcome)
    [] call.tool = "insertCell" -> insertCell(call.outcome)
    [] call.tool = "runCell" -> runCell(call.outcome)
    [] call.tool = "saveNotebook" -> saveNotebook(call.outcome)
    [] call.tool = "createNewPythonFile" -> createNewPythonFile(call.outcome)
    [] call.tool = "getFileContent" -> getFileContent(call.outcome)
    [] call.tool = "setFileContent" -> setFileContent(call.outcome)
    [] call.tool = "createNewFile" -> createNewFile(call.outcome)
    [] call.tool = "deleteFile" -> deleteFile(call.outcome)
    [] call.tool = "renameFile" -> renameFile(call.outcome)
    [] call.tool = "copyFile" -> copyFile(call.outcome)
    [] call.tool = "listFiles" -> listFiles(call.outcome)

\* the tool at hand is executed
ExecuteTool ==
  /\ toolCall # {} /\ toolReturn = {}
  /\ toolReturn' = {Execute(call) : call \in toolCall}
  /\ UNCHANGED <<history, messages, ctlVars, regVars, turns, returned,
                 streamCalls, clock, nextId, nEvents, currentWord, completions,
                 toolCall, utilVars>>

\* the local collaborators on their inputs: a word is in the chat input and
\* a tool is invoked; the completions are asked for and the tool is executed
LocalInit ==
  /\ HandlerInit
  /\ currentWord \in CurrentWords
  /\ completions = {}
  /\ toolCall \in {{call} : call \in ToolCalls}
  /\ toolReturn = {}
  /\ saveCall = {}
  /\ saveReturn = {}
  /\ toolContext = {}
  /\ providerTools = {}
  /\ fetchRun = NoFetch

LocalNext == ListCommandCompletions \/ ExecuteTool

LocalSpec == LocalInit /\ [][LocalNext]_vars

(***************************************************************************)
(* SettingConnector.save: the raw settings document is parsed (json5), the *)
(* fields of doNotSave are replaced under 'AIprovider', and the document   *)
(* is written again for the underlying connector.  The text of an object   *)
(* is a sequence of lines, each a comment or a member; a value is a        *)
(* string, null, or an object.                                             *)
(***************************************************************************)
SECRETS_REPLACEMENT == "SECRETS_REPLACEMENT"

\* the values of a document, as text and parsed: the members of an object
\* are lines in the text and entries once parsed
Str(text) == [kind |-> "string", text |-> text, members |-> <<>>]
Null == [kind |-> "null", text |-> "", members |-> <<>>]
Obj(members) == [kind |-> "object", text |-> "", members |-> members]
Invalid == [kind |-> "invalid", text |-> "", members |-> <<>>]
Comment == [line |-> "comment", key |-> "", value |-> Null]
Member(key, value) == [line |-> "member", key |-> key, value |-> value]
Entry(key, value) == [key |-> key, value |-> value]

\* object[key] = value: a key the object has keeps its place
Put(entries, key, value) ==
  IF \E i \in 1..Len(entries) : entries[i].key = key
  THEN [i \in 1..Len(entries) |->
          IF entries[i].key = key THEN Entry(key, value) ELSE entries[i]]
  ELSE Append(entries, Entry(key, value))

\* object[key]: {} when undefined, else the set of the one value
Get(entries, key) ==
  {entries[i].value : i \in {j \in 1..Len(entries) : entries[j].key = key}}

\* json5.parse: comments are dropped and of the members of one key the last
\* gives the value
RECURSIVE ParseLines(_, _)
ParseValue(value) ==
  IF value.kind = "object" THEN Obj(ParseLines(value.members, <<>>))
  ELSE value
ParseLines(lines, entries) ==
  IF lines = <<>> THEN entries
  ELSE IF Head(lines).line = "comment" THEN ParseLines(Tail(lines), entries)
  ELSE ParseLines(Tail(lines),
                  Put(entries, Head(lines).key, ParseValue(Head(lines).value)))

\* json5.stringify(settings, null, 2): one line per entry
RECURSIVE stringify(_)
stringify(value) ==
  IF value.kind = "object"
  THEN Obj([i \in 1..Len(value.members) |->
              Member(value.members[i].key,
                     stringify(value.members[i].value))])
  ELSE value

\* settings['AIprovider'][field] = SECRETS_REPLACEMENT
Replace(settings, ai, field) ==
  Obj(Put(settings.members, "AIprovider",
          Obj(Put(ai.members, field, Str(SECRETS_REPLACEMENT)))))

\* Redact replacing the first field of doNotSave only
Redact_FirstFieldOnly(settings, fields) ==
  IF fields = <<>> THEN [threw |-> FALSE, settings |-> settings]
  ELSE IF settings.kind = "null" THEN [threw |-> TRUE, settings |-> settings]
  ELSE IF settings.kind # "object" \/ Get(settings.members, "AIprovider") = {}
  THEN [threw |-> FALSE, settings |-> settings]
  ELSE LET field == Head(fields)
           ai == CHOOSE v \in Get(settings.members, "AIprovider") : TRUE
       IN IF ai.kind = "null" THEN [threw |-> TRUE, settings |-> settings]
          ELSE IF /\ ai.kind = "object"
                  /\ Get(ai.members, field) # {}
                  /\ Get(ai.members, field) # {Str("")}
          THEN [threw |-> FALSE, settings |-> Replace(settings, ai, field)]
          ELSE [threw |-> FALSE, settings |-> settings]

\* this._doNotSave.forEach(...): reading a property of null throws a
\* TypeError, reading one of a string gives undefined
RECURSIVE Redact(_, _)
Redact(settings, fields) ==
  IF fields = <<>> THEN [threw |-> FALSE, settings |-> settings]
  ELSE IF settings.kind = "null" THEN [threw |-> TRUE, settings |-> settings]
  ELSE IF settings.kind # "object" \/ Get(settings.members, "AIprovider") = {}
  THEN Redact(settings, Tail(fields))
  ELSE LET field == Head(fields)
           ai == CHOOSE v \in Get(settings.members, "AIprovider") : TRUE
       IN IF ai.kind = "null" THEN [threw |-> TRUE, settings |-> settings]
          ELSE IF /\ ai.kind = "object"
                  /\ Get(ai.members, field) # {}
                  /\ Get(ai.members, field) # {Str("")}
          THEN Redact(Replace(settings, ai, field), Tail(fields))
          ELSE Redact(settings, Tail(fields))

\* save(id, raw) with doNotSave set: what the call passes to
\* this._connector.save, and whether it rejects before doing so (json5.parse
\* throws a SyntaxError on text that is not JSON5)
save(doNotSave, raw) ==
  IF raw.kind = "invalid" THEN [threw |-> TRUE, forwarded |-> <<>>]
  ELSE LET redacted == Redact(ParseValue(raw), doNotSave)
       IN IF redacted.threw THEN [threw |-> TRUE, forwarded |-> <<>>]
          ELSE [threw |-> FALSE,
                forwarded |-> <<stringify(redacted.settings)>>]

\* the call at hand runs
Save ==
  /\ saveCall # {} /\ saveReturn = {}
  /\ saveReturn' = {save(c.doNotSave, c.raw) : c \in saveCall}
  /\ UNCHANGED <<history, messages, ctlVars, regVars, turns, returned,
                 streamCalls, clock, nextId, nEvents, currentWord, completions,
                 toolCall, toolReturn, saveCall, toolContext, providerTools,
                 fetchRun>>

\* the secret fields of the provider settings
SecretFields == {<<>>, <<"apiKey">>, <<"apiKey", "token">>}

\* the 'AIprovider' objects: a provider name, with or without an apiKey
\* (empty, or a key) and a token (a token, or the placeholder of an earlier
\* save), a comment, and an apiKey given twice
ProviderLines ==
  { <<Member("provider", Str("OpenAI"))>> \o c \o k \o t \o d :
      c \in {<<>>, <<Comment>>},
      k \in {<<>>, <<Member("apiKey", Str(""))>>,
             <<Member("apiKey", Str("sk-1"))>>},
      t \in {<<>>, <<Member("token", Str("tk-1"))>>,
             <<Member("token", Str(SECRETS_REPLACEMENT))>>},
      d \in {<<>>, <<Member("apiKey", Str("sk-2"))>>} }

\* the raw documents: text that does not parse, null, and objects with a
\* setting of another plugin part and no 'AIprovider', a null one, a string
\* or an object
RawDocuments ==
  {Invalid, Null} \cup
  { Obj(<<Member("apiKey", Str("other"))>> \o ai) :
      ai \in {<<>>, <<Member("AIprovider", Null)>>,
              <<Member("AIprovider", Str("OpenAI"))>>}
             \cup {<<Member("AIprovider", Obj(ls))>> : ls \in ProviderLines} }

SaveCalls == [doNotSave : SecretFields, raw : RawDocuments]

SaveInit ==
  /\ HandlerInit
  /\ currentWord = {}
  /\ completions = {}
  /\ toolCall = {}
  /\ toolReturn = {}
  /\ saveCall \in {{c} : c \in SaveCalls}
  /\ saveReturn = {}
  /\ toolContext = {}
  /\ providerTools = {}
  /\ fetchRun = NoFetch

SaveSpec == SaveInit /\ [][Save]_vars

(***************************************************************************)
(* createProviderTools (providers/provider-tools.ts).  A settings value is *)
(* given by its JavaScript type; an object by its type and the value of    *)
(* its 'enabled' property.                                                 *)
(***************************************************************************)
\* asRecord(value): {} when undefined, else the set of the one record
asRecord(value) == IF value.type = "object" THEN {value} ELSE {}

\* asBoolean taking every truthy value for true
asBoolean_Truthy(value) ==
  IF value \in {"true", "'true'", "1"} THEN {TRUE}
  ELSE IF value = "false" THEN {FALSE} ELSE {}

\* asBoolean(value): {} when undefined, else the set of the one boolean
asBoolean(value) ==
  IF value = "true" THEN {TRUE} ELSE IF value = "false" THEN {FALSE} ELSE {}

\* asBoolean(settings?.enabled) === true
Enabled(settings) == \E r \in settings : asBoolean(r.enabled) = {TRUE}

createProviderTools(options) ==
  LET customSettings == asRecord(options.customSettings)
  IN IF customSettings = {} THEN {}
     ELSE LET webSearchSettings == asRecord(options.customSettings.webSearch)
              webFetchSettings == asRecord(options.customSettings.webFetch)
              webSearchEnabled == Enabled(webSearchSettings)
              webFetchEnabled == Enabled(webFetchSettings)
          IN CASE options.provider = "openai" ->
                    IF webSearchEnabled /\ webSearchSettings # {}
                    THEN {[key |-> "web_search", tool |-> "openai.webSearch"]}
                    ELSE {}
               [] options.provider = "anthropic" ->
                    (IF webSearchEnabled /\ webSearchSettings # {}
                     THEN {[key |-> "web_search",
                            tool |-> "anthropic.webSearch_20250305"]}
                     ELSE {})
                    \cup
                    (IF webFetchEnabled /\ webFetchSettings # {}
                     THEN {[key |-> "web_fetch",
                            tool |-> "anthropic.webFetch_20250910"]}
                     ELSE {})
               [] options.provider = "google" ->
                    IF /\ webSearchEnabled /\ webSearchSettings # {}
                       /\ ~options.hasFunctionTools
                    THEN {[key |-> "google_search",
                           tool |-> "google.googleSearch"]}
                    ELSE {}
               [] OTHER -> {}

\* the call at hand runs
CreateProviderTools ==
  /\ toolContext # {} /\ providerTools = {}
  /\ providerTools' = {createProviderTools(o) : o \in toolContext}
  /\ UNCHANGED <<history, messages, ctlVars, regVars, turns, returned,
                 streamCalls, clock, nextId, nEvents, currentWord, completions,
                 toolCall, toolReturn, saveCall, saveReturn, toolContext,
                 fetchRun>>

\* the values of a 'webSearch' or 'webFetch' setting: undefined, an array,
\* and objects whose 'enabled' is undefined, a boolean, the string 'true' or
\* the number 1
ToolSettings ==
  { [type |-> "undefined", enabled |-> "undefined"],
    [type |-> "array", enabled |-> "undefined"] }
  \cup [type : {"object"},
        enabled : {"undefined", "true", "false", "'true'", "1"}]

\* the values of customSettings: undefined, null, a string, an array, and
\* objects
CustomSettings ==
  { [type |-> t, webSearch |-> [type |-> "undefined", enabled |-> "undefined"],
     webFetch |-> [type |-> "undefined", enabled |-> "undefined"]] :
      t \in {"undefined", "null", "string", "array"} }
  \cup [type : {"object"}, webSearch : ToolSettings, webFetch : ToolSettings]

ProviderNames == {"openai", "anthropic", "google", "mistral", "OpenAI"}

ToolContexts ==
  [provider : ProviderNames, customSettings : CustomSettings,
   hasFunctionTools : BOOLEAN]

ProviderToolsInit ==
  /\ HandlerInit
  /\ currentWord = {}
  /\ completions = {}
  /\ toolCall = {}
  /\ toolReturn = {}
  /\ saveCall = {}
  /\ saveReturn = {}
  /\ toolContext \in {{o} : o \in ToolContexts}
  /\ providerTools = {}
  /\ fetchRun = NoFetch

ProviderToolsSpec == ProviderToolsInit /\ [][CreateProviderTools]_vars

(***************************************************************************)
(* createBrowserFetchTool: the execution function step by step, with the   *)
(* requests it issues and the timers it starts.  A URL is the sequence of  *)
(* its parts (scheme, ':', '//', host, path).                              *)
(***************************************************************************)
DEFAULT_TIMEOUT_MS == 20000
MAX_TIMEOUT_MS == 120000

\* the scheme in lower case, as the URL parser writes it
LowerScheme(scheme) ==
  CASE scheme = "HTTPS" -> "https"
    [] scheme = "HTTP" -> "http"
    [] OTHER -> scheme
Schemes == {"http", "https", "ftp", "file", "javascript"}
SpecialSchemes == {"http", "https", "ftp"}

\* leading and trailing spaces are removed
RECURSIVE StripSpaces(_)
StripSpaces(url) ==
  IF url # <<>> /\ Head(url) = " " THEN StripSpaces(Tail(url))
  ELSE IF url # <<>> /\ url[Len(url)] = " "
  THEN StripSpaces(SubSeq(url, 1, Len(url) - 1))
  ELSE url

\* new URL(url): {} when it throws, else the set of the one URL.  Without a
\* base the text needs a scheme, and an http, https or ftp URL a host
ParseURL(url) ==
  LET u == StripSpaces(url)
  IN IF Len(u) < 2 \/ LowerScheme(u[1]) \notin Schemes \/ u[2] # ":" THEN {}
     ELSE LET scheme == LowerScheme(u[1])
              rest == SubSeq(u, 3, Len(u))
          IN IF scheme \in SpecialSchemes \cup {"file"}
             THEN IF /\ scheme \in SpecialSchemes
                     /\ (Len(rest) < 2 \/ rest[1] # "//" \/ rest[2] = "")
                  THEN {}
                  ELSE {[protocol |-> scheme \o ":",
                         href |-> <<scheme, ":">> \o
                                  (IF Len(rest) > 2 THEN rest
                                   ELSE rest \o <<"/">>)]}
             ELSE {[protocol |-> scheme \o ":", href |-> <<scheme, ":">> \o rest]}

\* Math.min(input.timeoutMs ?? DEFAULT_TIMEOUT_MS, MAX_TIMEOUT_MS)
TimeoutOf(timeoutMs) ==
  LET ms == IF timeoutMs = {} THEN DEFAULT_TIMEOUT_MS
            ELSE CHOOSE n \in timeoutMs : TRUE
  IN IF ms < MAX_TIMEOUT_MS THEN ms ELSE MAX_TIMEOUT_MS

\* Begin starting the timer before the URL is looked at
Begin_TimerFirst(run) ==
  LET armed == [run EXCEPT !.timers = <<[ms |-> TimeoutOf(run.timeoutMs),
                                         fired |-> FALSE,
                                         cleared |-> FALSE]>>]
  IN IF ParseURL(run.url) = {}
     THEN [armed EXCEPT !.pc = "returned", !.result = "invalid_url"]
     ELSE LET parsedUrl == CHOOSE u \in ParseURL(run.url) : TRUE
          IN IF parsedUrl.protocol \notin {"http:", "https:"}
             THEN [armed EXCEPT !.pc = "returned",
                                !.result = "unsupported_protocol"]
             ELSE [armed EXCEPT !.pc = "pending",
                                !.requests = <<parsedUrl.href>>]

\* execute, up to the call of fetch
Begin(run) ==
  IF ParseURL(run.url) = {}
  THEN [run EXCEPT !.pc = "returned", !.result = "invalid_url"]
  ELSE LET parsedUrl == CHOOSE u \in ParseURL(run.url) : TRUE
       IN IF parsedUrl.protocol \notin {"http:", "https:"}
          THEN [run EXCEPT !.pc = "returned",
                           !.result = "unsupported_protocol"]
          ELSE [run EXCEPT !.pc = "pending",
                           !.timers = <<[ms |-> TimeoutOf(run.timeoutMs),
                                         fired |-> FALSE,
                                         cleared |-> FALSE]>>,
                           !.requests = <<parsedUrl.href>>]

\* the try block is left with a payload; finally: clearTimeout(timeoutHandle)
Finish(run, result) ==
  [run EXCEPT !.pc = "returned", !.result = result,
              !.timers = [i \in 1..Len(run.timers) |->
                            [run.timers[i] EXCEPT !.cleared = TRUE]]]

FetchBegin ==
  /\ fetchRun.pc = "called"
  /\ fetchRun' = Begin(fetchRun)
  /\ UNCHANGED <<history, messages, ctlVars, regVars, turns, returned,
                 streamCalls, clock, nextId, nEvents, currentWord, completions,
                 toolCall, toolReturn, saveCall, saveReturn, toolContext,
                 providerTools>>

\* the response and its text arrive, or fetch rejects
FetchSettle(outcome) ==
  /\ fetchRun.pc = "pending" /\ ~fetchRun.aborted
  /\ fetchRun' =
       Finish(fetchRun,
              CASE outcome = "ok" -> "success"
                [] outcome = "http_error" -> "http_error"
                [] OTHER -> "network_or_cors")
  /\ UNCHANGED <<history, messages, ctlVars, regVars, turns, returned,
                 streamCalls, clock, nextId, nEvents, currentWord, completions,
                 toolCall, toolReturn, saveCall, saveReturn, toolContext,
                 providerTools>>

\* the timeout elapses: controller.abort()
TimerFires ==
  /\ fetchRun.pc = "pending"
  /\ \E i \in 1..Len(fetchRun.timers) :
       /\ ~fetchRun.timers[i].fired /\ ~fetchRun.timers[i].cleared
       /\ fetchRun' = [fetchRun EXCEPT !.timers[i].fired = TRUE,
                                       !.aborted = TRUE]
  /\ UNCHANGED <<history, messages, ctlVars, regVars, turns, returned,
                 streamCalls, clock, nextId, nEvents, currentWord, completions,
                 toolCall, toolReturn, saveCall, saveReturn, toolContext,
                 providerTools>>

\* the aborted request rejects with an AbortError
FetchAborted ==
  /\ fetchRun.pc = "pending" /\ fetchRun.aborted
  /\ fetchRun' = Finish(fetchRun, "timeout")
  /\ UNCHANGED <<history, messages, ctlVars, regVars, turns, returned,
                 streamCalls, clock, nextId, nEvents, currentWord, completions,
                 toolCall, toolReturn, saveCall, saveReturn, toolContext,
                 providerTools>>

\* the input URLs: http and https ones (in upper case, after a space), other
\* schemes, and texts the URL parser rejects
Urls ==
  { <<"https", ":", "//", "a.org", "/x">>,
    <<"http", ":", "//", "a.org">>,
    <<"HTTPS", ":", "//", "a.org", "/x">>,
    <<" ", "https", ":", "//", "a.org", "/x">>,
    <<"ftp", ":", "//", "a.org", "/x">>,
    <<"file", ":", "//", "", "/etc/passwd">>,
    <<"javascript", ":", "alert(1)">>,
    <<"a.org", "/x">>,
    <<"//", "a.org">>,
    <<"https", ":", "//">>,
    <<"/x">>,
    <<>> }

\* input.timeoutMs: undefined, the least value of the schema, and one above
\* the greatest
TimeoutInputs == {{}, {1000}, {500000}}

FetchInit ==
  /\ HandlerInit
  /\ currentWord = {}
  /\ completions = {}
  /\ toolCall = {}
  /\ toolReturn = {}
  /\ saveCall = {}
  /\ saveReturn = {}
  /\ toolContext = {}
  /\ providerTools = {}
  /\ fetchRun \in {[NoFetch EXCEPT !.pc = "called", !.url = url,
                                   !.timeoutMs = ms] :
                     url \in Urls, ms \in TimeoutInputs}

FetchNext ==
  \/ FetchBegin
  \/ \E outcome \in {"ok", "http_error", "rejects"} : FetchSettle(outcome)
  \/ TimerFires
  \/ FetchAborted

FetchSpec == FetchInit /\ [][FetchNext]_vars

Turns == 1..MaxCalls
Errors == BackendErrors \cup {AbortError}

Next ==
  \/ \E r \in Registries : SetProvider(r)
  \/ ClearMessages
  \/ \E body \in Bodies : SendMessage(body)
  \/ StopStreaming
  \/ \E t \in Turns, d \in Deltas : ChatChunk(t, d)
  \/ \E t \in Turns : ChatEnd(t)
  \/ \E t \in Turns, reason \in Errors : ChatCatch(t, reason)
  \/ \E t \in Turns, chunk \in Chunks, now \in 0..MaxClock :
       AgentEvent(t, chunk, now)
  \/ \E t \in Turns : AgentEnd(t)
  \/ \E t \in Turns, reason \in Errors : AgentCatch(t, reason)

Spec == Init /\ [][Next]_vars

\* the consumer of turn t leaves its for-await loop: the backend stream has
\* completed, or has thrown (the abort error once its signal is aborted)
TurnEnds(t) ==
  \/ ChatEnd(t)
  \/ \E reason \in Errors : ChatCatch(t, reason)
  \/ AgentEnd(t)
  \/ \E reason \in Errors : AgentCatch(t, reason)

\* the operations that start, feed, cancel and end a turn (the clear
\* operations and the clock do not bear on whether a turn settles)
LiveNext ==
  \/ \E r \in Registries : SetProvider(r)
  \/ SendMessage(<<"H", "e", "l", "l", "o">>)
  \/ StopStreaming
  \/ \E t \in Turns, d \in Deltas : ChatChunk(t, d)
  \/ \E t \in Turns : ChatEnd(t)
  \/ \E t \in Turns, reason \in Errors : ChatCatch(t, reason)
  \/ \E t \in Turns, chunk \in Chunks : AgentEvent(t, chunk, clock)
  \/ \E t \in Turns : AgentEnd(t)
  \/ \E t \in Turns, reason \in Errors : AgentCatch(t, reason)

\* the backend stream of every turn eventually completes or throws, and the
\* event loop then resumes the consumer
FairSpec ==
  Init /\ [][LiveNext]_vars /\ \A t \in Turns : WF_vars(TurnEnds(t))

\* the events of an agent run whose model narrates: an AI entry carrying a
\* text along with its tool call, an AI entry whose text is blank, and a tool
\* step whose result declares the command it ran, besides the events of
\* Chunks
Note == <<"o", "k">>
ResultCmd == <<"{\"command\": \"notebook:run-cell\"}">>
AgentChunks ==
  Chunks \cup
  { AgentChunk(<<AIToolMessage(Note, <<ToolCallA>>)>>),
    AgentChunk(<<AIMessage(<<" ">>)>>),
    ToolsChunk(<<ToolMessage("notebook", ResultCmd)>>) }

\* the agent-mode operations: a provider with an agent is chosen, messages
\* are sent, and the agent's stream is consumed, cancelled and ended
AgentNext ==
  \/ \E r \in {x \in Registries : x.agent} : SetProvider(r)
  \/ SendMessage(<<"H", "e", "l", "l", "o">>)
  \/ StopStreaming
  \/ \E t \in Turns, chunk \in AgentChunks, now \in 0..MaxClock :
       AgentEvent(t, chunk, now)
  \/ \E t \in Turns : AgentEnd(t)
  \/ \E t \in Turns, reason \in Errors : AgentCatch(t, reason)

AgentSpec == Init /\ [][AgentNext]_vars

\* the events of an agent run that uses tools: an AI entry with two tool
\* calls, an agent step that carries a Tool entry after its AI entry, a tool
\* step whose entry has no name, a tool step with two entries (one declaring
\* its command, one whose content is not JSON), and the closing answer
ToolCallB == [name |-> "notebook", args |-> <<"{}">>]
PlainResult == <<"3 cells">>
ToolChunks ==
  { AgentChunk(<<AIToolMessage(<<>>, <<ToolCallA, ToolCallB>>)>>),
    AgentChunk(<<AIToolMessage(Note, <<ToolCallA>>),
                 ToolMessage("read_file", ResultA)>>),
    ToolsChunk(<<ToolMessage("", ResultA)>>),
    ToolsChunk(<<ToolMessage("notebook", ResultCmd),
                 ToolMessage("read_file", PlainResult)>>),
    AgentChunk(<<AIMessage(<<"d", "o", "n", "e">>)>>) }

\* the agent-mode operations over the events of a run that uses tools
ToolNext ==
  \/ \E r \in {x \in Registries : x.agent} : SetProvider(r)
  \/ SendMessage(<<"H", "e", "l", "l", "o">>)
  \/ StopStreaming
  \/ \E t \in Turns, chunk \in ToolChunks, now \in 0..MaxClock :
       AgentEvent(t, chunk, now)
  \/ \E t \in Turns : AgentEnd(t)
  \/ \E t \in Turns, reason \in Errors : AgentCatch(t, reason)

ToolSpec == Init /\ [][ToolNext]_vars

\* the handler is constructed after the registry's first setProvider (the
\* registry plugin calls it when the settings have loaded, the chat plugin
\* constructs the handler when it is activated): the registry holds any of
\* its configurations, and _errorMessage its initial ''
StartupInit ==
  /\ history = <<>>
  /\ messages = <<>>
  /\ writers = {}
  /\ controller = 0
  /\ aborted = {}
  /\ errorMessage = <<>>
  /\ reg \in Registries
  /\ turns = <<>>
  /\ returned = "none"
  /\ streamCalls = <<>>
  /\ clock = 0
  /\ nextId = 1
  /\ nEvents = 0
  /\ nSet = 0
  /\ nOverlap = 0
  /\ currentWord = {}
  /\ completions = {}
  /\ toolCall = {}
  /\ toolReturn = {}
  /\ saveCall = {}
  /\ saveReturn = {}
  /\ toolContext = {}
  /\ providerTools = {}
  /\ fetchRun = NoFetch

\* the provider is changed, messages are sent and cleared, and the streams
\* of the dispatched ones complete
StartupNext ==
  \/ \E r \in Registries : SetProvider(r)
  \/ ClearMessages
  \/ \E body \in Bodies : SendMessage(body)
  \/ \E t \in Turns : ChatEnd(t)
  \/ \E t \in Turns : AgentEnd(t)

StartupSpec == StartupInit /\ [][StartupNext]_vars

(***************************************************************************)
(* Properties                                                              *)
(***************************************************************************)
Hi == <<"H", "i">>
There == <<" ", "t", "h", "e", "r", "e">>
Hello == <<"H", "e", "l", "l", "o">>
Done == <<"d", "o", "n", "e">>

\* d1 + ... + dn
RECURSIVE Concat(_)
Concat(ds) == IF ds = <<>> THEN <<>> ELSE Head(ds) \o Concat(Tail(ds))

\* turn t settles in this step
Settles(t) == Streaming(t) /\ turns'[t].pc = "settled"

\* the stream consumer of turn t consumes a delta or an event in this step
Consumes(t) ==
  /\ Streaming(t) /\ turns'[t].pc = "streaming"
  /\ turns'[t].consumed # turns[t].consumed

ErrorCount(msgs) ==
  Cardinality({i \in 1..Len(msgs) : msgs[i].sender = "ERROR"})

\* C1: a chat-mode turn whose stream completes normally after the deltas
\* d1..dn appends exactly one entry to History, AI(d1+...+dn), and appends
\* nothing while it consumes the deltas.
C1_ChatCommitsConcatenation ==
  [][\A t \in Turns :
       /\ (Settles(t) /\ turns[t].kind = "chat" /\ turns'[t].result = "true")
            => history' = Append(history, AIMessage(Concat(turns[t].consumed)))
       /\ (Consumes(t) /\ turns[t].kind = "chat") => history' = history]_vars

\* a chat turn has completed after the deltas 'Hi', ' there'
C1_Witness ==
  \E t \in 1..Len(turns) :
    /\ turns[t].kind = "chat" /\ turns[t].result = "true"
    /\ history # <<>>
    /\ history[Len(history)] = AIMessage(Hi \o There)

\* C2: a sendMessage whose body starts with '/clear', in whatever state,
\* deletes all displayed messages, empties History and invokes no backend
\* stream.
C2_ClearEmptiesWithoutBackend ==
  [][\A body \in Bodies :
       (StartsWith(body, CLEAR) /\ SendMessage(body))
         => /\ messages' = <<>>
            /\ history' = <<>>
            /\ streamCalls' = streamCalls
            /\ \A t \in 1..Len(turns) : turns'[t].consumed = turns[t].consumed]_vars

\* '/clear' was sent while a turn was streaming
C2_Witness ==
  /\ returned = "false" /\ messages = <<>> /\ history = <<>>
  /\ \E t \in 1..Len(turns) :
       Streaming(t) /\ turns[t].hIdx = 0 /\ turns[t].consumed # <<>>

C4_NoBackendFails ==
  [][\A body \in Bodies :
       (~StartsWith(body, CLEAR) /\ ~reg.chatModel /\ SendMessage(body))
         => /\ returned' = "false"
            /\ history' = history
            /\ streamCalls' = streamCalls /\ turns' = turns
            /\ Len(messages') = Len(messages) + 2
            /\ SubSeq(messages', 1, Len(messages)) = messages
            /\ messages'[Len(messages) + 1].sender = "User"
            /\ messages'[Len(messages) + 1].body = Txt(body)
            /\ messages'[Len(messages) + 2].sender = "ERROR"]_vars

\* a message was sent with no chat model configured
C4_Witness ==
  /\ ~reg.chatModel /\ returned = "false"
  /\ Len(messages) >= 2
  /\ messages[Len(messages)].sender = "ERROR"
  /\ messages[Len(messages)].turn = 0
  /\ messages[Len(messages) - 1].body = Txt(Hello)

\* the stream of the spec's example: tool_call A, tool_result A, text 'done'
CallResultDone ==
  << AgentChunk(<<AIToolMessage(<<>>, <<ToolCallA>>)>>),
     ToolsChunk(<<ToolMessage("read_file", ResultA)>>),
     AgentChunk(<<AIMessage(Done)>>) >>

\* the atom shows the text: as plain text or inside a thinking block
Shows(atom, text) ==
  \/ atom.blk = "text" /\ atom.s = text
  \/ atom.blk = "thinking" /\ atom.content = text

\* the body has the block of tool call A, then the block of its result,
\* then 'done'
CallThenResultThenDone(body) ==
  \E i, j, k \in 1..Len(body) :
    /\ i < j /\ j < k
    /\ body[i].blk = "tool_call" /\ body[i].name = ToolCallA.name
    /\ body[j].blk = "tool_result" /\ body[j].content = ResultA
    /\ Shows(body[k], Done)

\* the assistant message of a turn whose message id is id
Displayed(msgs, id) == {i \in 1..Len(msgs) : msgs[i].id = id}

\* C5: for an agent-mode stream delivering tool_call A, tool_result A, then
\* the text 'done', the body published after the last event, and the final
\* one published when the stream ends, show the tool_call block before the
\* tool_result block before 'done', whatever the timestamps (equal ones
\* included).
C5_CallResultDoneInOrder ==
  [][\A t \in Turns :
       (/\ Streaming(t) /\ turns[t].kind = "agent"
        /\ \/ Consumes(t) /\ turns'[t].consumed = CallResultDone
           \/ Settles(t) /\ turns'[t].result = "true"
                /\ turns[t].consumed = CallResultDone)
         => /\ Displayed(messages', turns[t].botId) # {}
            /\ \A i \in Displayed(messages', turns[t].botId) :
                 CallThenResultThenDone(messages'[i].body)]_vars

\* the three events were consumed within one clock tick and rendered
C5_Witness ==
  \E t \in 1..Len(turns) :
    /\ Streaming(t) /\ turns[t].kind = "agent"
    /\ turns[t].consumed = CallResultDone
    /\ Len(turns[t].items) = 3
    /\ \A i \in 1..3 : turns[t].items[i].timestamp = turns[t].items[1].timestamp
    /\ \E i \in Displayed(messages, turns[t].botId) :
         CallThenResultThenDone(messages[i].body)

\* C6: a turn ended by stopStreaming() publishes no error message when it
\* settles.
C6_NoErrorOnCancel ==
  [][\A t \in Turns :
       (t \in aborted /\ Settles(t))
         => ErrorCount(messages') = ErrorCount(messages)]_vars

\* no two adjacent entries have the same role
Alternates(request) ==
  \A i \in 1..(Len(request) - 1) : request[i].role # request[i + 1].role

\* C7: the request passed to the backend has no two adjacent entries of the
\* same role (stated for calls dispatched one after the other).
C7_RequestAlternates ==
  \A t \in 1..Len(turns) :
    (Streaming(t) /\ nOverlap = 0) => Alternates(turns[t].request)

\* C8: a dispatched sendMessage appends Human(body) to History in the step
\* that starts the backend stream, and the entry stays where it was put
\* while the turn streams and when it settles, unless History is cleared.
C8_HumanRecorded ==
  [][/\ \A body \in Bodies :
          (~StartsWith(body, CLEAR) /\ reg.chatModel /\ SendMessage(body))
            => /\ history' = Append(history, HumanMessage(body))
               /\ Len(streamCalls') = Len(streamCalls) + 1
               /\ turns'[Len(turns')].request[Len(turns'[Len(turns')].request)]
                    = HumanMessage(body)
     /\ \A t \in Turns :
          (Streaming(t) /\ turns[t].hIdx # 0 /\ history' # <<>>)
            => /\ turns[t].hIdx <= Len(history')
               /\ history'[turns[t].hIdx] = HumanMessage(turns[t].body)]_vars

\* a turn has failed and History holds its Human entry
C8_Witness ==
  /\ history = <<HumanMessage(Hello)>>
  /\ \E t \in 1..Len(turns) : turns[t].result = "false"

\* C9: a chat-mode turn whose stream throws appends nothing to History,
\* publishes exactly one error message and returns false.
C9_ChatFailure ==
  [][\A t \in Turns :
       (Settles(t) /\ turns[t].kind = "chat" /\ turns'[t].result # "true")
         => /\ history' = history
            /\ ErrorCount(messages') = ErrorCount(messages) + 1
            /\ turns'[t].result = "false"]_vars

\* C10: an agent-mode turn whose stream throws keeps History as the consumed
\* events left it, publishes exactly one error message and returns false.
C10_AgentFailure ==
  [][\A t \in Turns :
       (Settles(t) /\ turns[t].kind = "agent" /\ turns'[t].result # "true")
         => /\ history' = history
            /\ ErrorCount(messages') = ErrorCount(messages) + 1
            /\ turns'[t].result = "false"]_vars

\* the AI and Tool entries carried by a sequence of agent events
RECURSIVE Carried(_)
Carried(events) ==
  IF events = <<>> THEN <<>>
  ELSE Head(events).messages \o Carried(Tail(events))

\* C11: in agent mode the step that consumes an event appends the entries the
\* event carries to History, once and in arrival order; for calls made one
\* after the other and no clear since dispatch, History after the turn's
\* Human entry is exactly the entries of the events consumed so far.
C11_AgentHistoryIncremental ==
  [][\A t \in Turns :
       (Consumes(t) /\ turns[t].kind = "agent")
         => /\ history' =
                 history \o turns'[t].consumed[Len(turns'[t].consumed)].messages
            /\ (turns'[t].hIdx # 0 /\ nOverlap' = 0)
                 => /\ turns'[t].hIdx <= Len(history')
                    /\ SubSeq(history', turns'[t].hIdx + 1, Len(history'))
                         = Carried(turns'[t].consumed)]_vars

\* an agent turn that has consumed the call, the result and 'done' is still
\* streaming, and History already holds the three entries
C11_Witness ==
  \E t \in 1..Len(turns) :
    /\ Streaming(t) /\ turns[t].kind = "agent"
    /\ turns[t].consumed = CallResultDone
    /\ history = <<HumanMessage(Hello)>> \o Carried(CallResultDone)

\* a is a prefix of b
IsPrefix(a, b) == Len(a) <= Len(b) /\ SubSeq(b, 1, Len(a)) = a

\* the step is a clear: clearMessages(), or a sendMessage of a '/clear' body
ClearStep ==
  \/ ClearMessages
  \/ \E body \in Bodies : StartsWith(body, CLEAR) /\ SendMessage(body)

\* C12: every step either is a clear, which leaves History empty, or leaves
\* the earlier History as a prefix of the later one.
C12_HistoryAppendOnly ==
  [][IF ClearStep THEN history' = <<>> ELSE IsPrefix(history, history')]_vars

\* History was cleared while an agent turn was streaming, and the turn has
\* appended entries since
C12_Witness ==
  \E t \in 1..Len(turns) :
    /\ Streaming(t) /\ turns[t].kind = "agent"
    /\ turns[t].hIdx = 0
    /\ Len(turns[t].consumed) >= 2
    /\ Len(history) = 1

\* C13: a stopStreaming() call made while a turn is streaming aborts the
\* signal passed to that turn's backend stream, for every streaming turn.
C13_StopAbortsEveryStreamingTurn ==
  [][\A t \in Turns :
       (Streaming(t) /\ StopStreaming) => t \in aborted']_vars

\* the streaming turns
Live == {t \in 1..Len(turns) : Streaming(t)}

\* C14: at most one turn is streaming at any time.
C14_AtMostOneStreamHandle == Cardinality(Live) <= 1

\* C15: the active writers hold the assistant in every state where a turn
\* is streaming, and are empty in every state where none is.
C15_WritersFollowTurns ==
  IF Live # {} THEN writers = {personaName} ELSE writers = {}

\* C16: the step in which a turn settles, whatever its outcome, leaves the
\* handler without a controller, and a stopStreaming() call made while it
\* has none changes nothing.
C16_ControllerReleased ==
  [][/\ \A t \in Turns : Settles(t) => controller' = 0
     /\ (controller = 0 /\ StopStreaming) => UNCHANGED vars]_vars

\* one turn has completed and another was cancelled and has settled; no
\* controller is held
C16_Witness ==
  /\ controller = 0 /\ aborted = {}
  /\ \E t, u \in 1..Len(turns) :
       /\ turns[t].result = "true"
       /\ turns[u].result = "false"
       /\ \E i \in 1..Len(messages) :
            /\ messages[i].turn = u
            /\ messages[i].body = ErrorBody(AbortError.message)

\* turn t has settled
Settled(t) == t \in 1..Len(turns) /\ turns[t].pc = "settled"

\* C17: provided every backend stream eventually completes or throws, every
\* dispatched turn eventually settles, and a turn whose signal was aborted
\* eventually settles with its controller let go.
C17_TurnsSettle ==
  \A t \in Turns :
    /\ Streaming(t) ~> Settled(t)
    /\ (Streaming(t) /\ t \in aborted) ~> (Settled(t) /\ t \notin aborted)

\* two overlapping turns have both settled, one of them after its signal
\* was aborted
C17_Witness ==
  /\ Len(turns) = 2 /\ nOverlap = 1
  /\ Settled(1) /\ Settled(2)
  /\ \E i \in 1..Len(messages) :
       messages[i].body = ErrorBody(AbortError.message)

\* C18: no sendMessage call rejects.
C18_NeverRejects == \A t \in 1..Len(turns) : turns[t].result # "rejected"

\* C19: in chat mode the step that consumes the k-th delta republishes the
\* assistant message with the body d1+...+dk, and the completion of the
\* stream leaves the displayed messages as they are.
C19_ChatBodyGrowsWithDeltas ==
  [][\A t \in Turns :
       /\ (Consumes(t) /\ turns[t].kind = "chat")
            => /\ Displayed(messages', turns[t].botId) # {}
               /\ \A i \in Displayed(messages', turns[t].botId) :
                    /\ messages'[i].sender = personaName
                    /\ messages'[i].body = Txt(Concat(turns'[t].consumed))
       /\ (Settles(t) /\ turns[t].kind = "chat" /\ turns'[t].result = "true")
            => messages' = messages]_vars

\* the example: for the input 'Hello' the deltas 'Hi', ' there' give the
\* body 'Hi there' and the History Human('Hello'), AI('Hi there')
C19_Witness ==
  /\ history = <<HumanMessage(Hello), AIMessage(Hi \o There)>>
  /\ Len(messages) = 2
  /\ messages[1].sender = "User" /\ messages[1].body = Txt(Hello)
  /\ messages[2].sender = personaName /\ messages[2].body = Txt(Hi \o There)
  /\ Settled(1) /\ turns[1].result = "true"

\* the displayed message i is the assistant message of a turn that was
\* cancelled or has settled
Frozen(i) ==
  /\ messages[i].sender = personaName
  /\ messages[i].turn \in 1..Len(turns)
  /\ \/ messages[i].turn \in aborted
     \/ turns[messages[i].turn].pc = "settled"

\* C20: no step other than a clear deletes or changes the assistant message
\* of a turn once the turn is cancelled, nor after it has settled.
C20_PartialBodyKept ==
  [][~ClearStep
       => \A i \in 1..Len(messages) :
            Frozen(i) => /\ i <= Len(messages')
                         /\ messages'[i] = messages[i]]_vars

\* an agent turn was cancelled after its tool call was rendered and has
\* settled; the message still shows the tool call
C20_Witness ==
  \E i, j \in 1..Len(messages) :
    /\ messages[i].sender = personaName
    /\ Settled(messages[i].turn)
    /\ messages[i].body # <<>>
    /\ messages[i].body[1].blk = "tool_call"
    /\ messages[j].turn = messages[i].turn
    /\ messages[j].body = ErrorBody(AbortError.message)

\* C21: every sendMessage with a non-clear body publishes the user's message
\* first: it is appended to the display as it stood, whether or not a backend
\* exists, any error message of the call comes after it, and no assistant
\* message of the turn is displayed yet when the call reaches the backend.
C21_UserMessageFirst ==
  [][\A body \in Bodies :
       (~StartsWith(body, CLEAR) /\ SendMessage(body))
         => /\ Len(messages') > Len(messages)
            /\ SubSeq(messages', 1, Len(messages)) = messages
            /\ messages'[Len(messages) + 1].sender = "User"
            /\ messages'[Len(messages) + 1].body = Txt(body)
            /\ \A j \in (Len(messages) + 2)..Len(messages') :
                 messages'[j].sender = "ERROR"
            /\ reg.chatModel
                 => /\ Len(messages') = Len(messages) + 1
                    /\ messages'[Len(messages')].turn = Len(turns')
                    /\ turns'[Len(turns')].consumed = <<>>]_vars

\* a message sent without a backend is displayed before its error message,
\* and a message sent to a backend before the assistant's message
C21_Witness ==
  /\ Len(messages) = 4
  /\ messages[1].sender = "User" /\ messages[1].turn = 0
  /\ messages[2].sender = "ERROR" /\ messages[2].turn = 0
  /\ messages[3].sender = "User" /\ messages[3].turn = 1
  /\ messages[4].sender = personaName /\ messages[4].turn = 1

\* the step dispatches a turn: a sendMessage of a non-clear body while a chat
\* model is configured
Dispatches(body) ==
  ~StartsWith(body, CLEAR) /\ reg.chatModel /\ SendMessage(body)

\* C22: the step that dispatches a turn invokes one backend stream, the
\* agent's if the registry exposes an agent at that moment and the chat
\* model's otherwise; no other step invokes a stream (none is invoked again
\* when a turn fails), so every turn has exactly one stream invocation.
C22_OneStreamPerTurn ==
  [][/\ \A body \in Bodies :
          Dispatches(body)
            => streamCalls' =
                 Append(streamCalls,
                        [turn |-> Len(turns) + 1,
                         backend |-> IF reg.agent THEN "agent" ELSE "chat"])
     /\ (\A body \in Bodies : ~Dispatches(body)) => streamCalls' = streamCalls
     /\ \A t \in 1..Len(turns') :
          Cardinality({i \in 1..Len(streamCalls') : streamCalls'[i].turn = t})
            = 1]_vars

\* an agent-mode turn has failed and a second turn was dispatched since: two
\* streams were invoked, one for each
C22_Witness ==
  /\ Len(turns) = 2 /\ Len(streamCalls) = 2
  /\ turns[1].kind = "agent" /\ turns[1].result = "false"
  /\ streamCalls[1] = [turn |-> 1, backend |-> "agent"]
  /\ streamCalls[2] = [turn |-> 2, backend |-> "agent"]

\* the consumer of turn t has published the assistant message at least once
PublishedWhileOpen(t) ==
  IF turns[t].kind = "chat" THEN turns[t].content # <<>>
  ELSE turns[t].isStreaming

\* the body of the latest publication of the assistant message of turn t
LastPublished(t) ==
  IF turns[t].kind = "chat" THEN Txt(turns[t].content)
  ELSE RenderBody(turns[t].items, turns[t].finalResponse, turns[t].isStreaming)

\* the assistant messages of turn t on display
Assistant(msgs, t) ==
  {i \in 1..Len(msgs) : msgs[i].turn = t /\ msgs[i].sender = personaName}

\* C23: while a turn is open every publication of its assistant message
\* carries the turn's one message identifier, and the step in which the turn
\* settles publishes the message once more with the body of the latest
\* publication, so that the message is then on display with that body; in
\* chat mode and in agent mode.
C23_SettlePublishesOnceMore ==
  [][\A t \in Turns :
       /\ Streaming(t)
            => \A i \in Assistant(messages', t) :
                 messages'[i].id = turns[t].botId
       /\ (Settles(t) /\ PublishedWhileOpen(t))
            => \E i \in Assistant(messages', t) :
                 messages'[i].body = LastPublished(t)]_vars

EntryActivity(m) ==
  IF m.role = "ai"
  THEN [i \in 1..Len(m.tool_calls) |-> "tool_call"]
         \o (IF TrimNonEmpty(m.content) THEN m.content ELSE <<>>)
  ELSE IF m.role = "tool" THEN <<"tool_result">>
  ELSE <<>>

\* the activity a sequence of history entries delivers
RECURSIVE EntriesActivity(_)
EntriesActivity(msgs) ==
  IF msgs = <<>> THEN <<>>
  ELSE EntryActivity(Head(msgs)) \o EntriesActivity(Tail(msgs))

\* the activity a sequence of agent events delivers
DeliveredActivity(events) == EntriesActivity(Carried(events))

\* the activity from the first tool call or tool result on: the text
\* delivered before it is the final answer
RECURSIVE NonFinal(_)
NonFinal(activity) ==
  IF activity = <<>> \/ Head(activity) \in {"tool_call", "tool_result"}
  THEN activity
  ELSE NonFinal(Tail(activity))

\* the activity a body shows, in order
RECURSIVE BodyActivity(_)
BodyActivity(body) ==
  IF body = <<>> THEN <<>>
  ELSE LET atom == Head(body)
       IN (CASE atom.blk = "tool_call" -> <<"tool_call">>
             [] atom.blk = "tool_result" -> <<"tool_result">>
             [] atom.blk = "thinking" -> atom.content
             [] OTHER -> atom.s)
          \o BodyActivity(Tail(body))

\* the activity a body shows before the final response it ends with
RenderedActivity(body, finalResponse) ==
  LET shown == BodyActivity(body)
  IN SubSeq(shown, 1, Len(shown) - Len(finalResponse))

\* C27: with a clock that does not go back, the body published after an
\* agent-mode event shows the tool calls, tool results and narration text
\* delivered so far in the order of their delivery, also when the narration
\* arrives in pieces with tool activity in between.
C27_ActivityInDeliveryOrder ==
  [][\A t \in Turns :
       (Consumes(t) /\ turns[t].kind = "agent")
         => \A i \in Assistant(messages', t) :
              RenderedActivity(messages'[i].body, turns'[t].finalResponse)
                = NonFinal(DeliveredActivity(turns'[t].consumed))]_vars

\* the contents of the thinking items
Thinking(items) ==
  {items[i].data.content : i \in {j \in 1..Len(items) : items[j].type = "thinking"}}

\* C28: when an agent step delivers an AI entry with a non-blank text, the
\* text is thinking exactly when a tool_call or tool_result item exists at
\* that moment, the entry's own tool calls included: it is then appended to
\* the narration shown by the thinking item and the final response is left
\* as it was; otherwise it is appended to the final response and no thinking
\* item is made or changed. A blank text changes neither.
C28_ThinkingIffToolItems ==
  [][\A t \in Turns :
       (Consumes(t) /\ turns[t].kind = "agent")
         => LET chunk == turns'[t].consumed[Len(turns'[t].consumed)]
                m == chunk.messages[1]
                old == turns[t]
                new == turns'[t]
                toolItems ==
                  \/ \E i \in 1..Len(old.items) :
                       old.items[i].type \in {"tool_call", "tool_result"}
                  \/ m.tool_calls # <<>>
            IN (chunk.key = "agent" /\ m.role = "ai")
                 => IF \A i \in 1..Len(m.content) : m.content[i] \in Whitespace
                    THEN /\ new.finalResponse = old.finalResponse
                         /\ Thinking(new.items) = Thinking(old.items)
                    ELSE IF toolItems
                    THEN /\ new.finalResponse = old.finalResponse
                         /\ new.messageContent = old.messageContent \o m.content
                         /\ Thinking(new.items) = {new.messageContent}
                    ELSE /\ new.finalResponse = old.finalResponse \o m.content
                         /\ new.items = old.items]_vars

\* a text that arrived before any tool activity is the final response, and
\* a text that arrived in the entry of the first tool call is thinking
C28_Witness ==
  \E t \in 1..Len(turns) :
    /\ Streaming(t) /\ turns[t].kind = "agent"
    /\ turns[t].consumed = << AgentChunk(<<AIMessage(Done)>>),
                              AgentChunk(<<AIToolMessage(Note, <<ToolCallA>>)>>) >>
    /\ turns[t].finalResponse = Done
    /\ Thinking(turns[t].items) = {Note}

\* C29: in every body an agent-mode turn has on display, the final-response
\* text is the last thing shown and every rendered block comes before it,
\* whatever the order in which answer text, tool calls and tool results
\* arrived.
C29_FinalResponseLast ==
  \A t \in 1..Len(turns) :
    (Streaming(t) /\ turns[t].kind = "agent" /\ turns[t].finalResponse # <<>>)
      => /\ Assistant(messages, t) # {}
         /\ \A i \in Assistant(messages, t) :
              LET body == messages[i].body
              IN /\ body # <<>>
                 /\ body[Len(body)].blk = "text"
                 /\ body[Len(body)].s = turns[t].finalResponse
                 /\ \A k \in 1..(Len(body) - 1) : body[k].blk # "text"

\* the answer text arrived first, a tool call and its result after it, and
\* the body shows the two blocks and then the answer
C29_Witness ==
  \E t \in 1..Len(turns) :
    /\ Streaming(t) /\ turns[t].kind = "agent"
    /\ turns[t].finalResponse = Done
    /\ \E i \in Assistant(messages, t) :
         /\ Len(messages[i].body) = 3
         /\ messages[i].body[1].blk = "tool_call"
         /\ messages[i].body[2].blk = "tool_result"
         /\ messages[i].body[3] = [blk |-> "text", s |-> Done]

\* how often x occurs in the sequence
Count(seq, x) == Cardinality({i \in 1..Len(seq) : seq[i] = x})

\* the two sequences hold the same elements, each as often
SameElements(a, b) ==
  /\ Len(a) = Len(b)
  /\ \A i \in 1..Len(a) : Count(a, a[i]) = Count(b, a[i])

\* C30: in agent mode, once an event that delivers a tool call, a tool
\* result or a non-blank text has been processed, the turn's message is on
\* display and its body shows every tool call, tool result and text
\* delivered so far; and the step in which the stream ends normally
\* publishes a body that shows all that the consumed events delivered.
C30_RenderAfterEveryEvent ==
  [][\A t \in Turns :
       /\ (Consumes(t) /\ turns[t].kind = "agent"
              /\ DeliveredActivity(turns'[t].consumed) # <<>>)
            => /\ Assistant(messages', t) # {}
               /\ \A i \in Assistant(messages', t) :
                    SameElements(BodyActivity(messages'[i].body),
                                 DeliveredActivity(turns'[t].consumed))
       /\ (Settles(t) /\ turns[t].kind = "agent" /\ turns'[t].result = "true")
            => /\ Assistant(messages', t) # {}
               /\ \A i \in Assistant(messages', t) :
                    SameElements(BodyActivity(messages'[i].body),
                                 DeliveredActivity(turns[t].consumed))]_vars

\* an agent turn has ended after a tool call, the result of a notebook
\* command and a text, and its last body shows the three
C30_Witness ==
  \E t \in 1..Len(turns) :
    /\ turns[t].kind = "agent" /\ turns[t].result = "true"
    /\ \E i \in Assistant(messages, t) :
         /\ Len(messages[i].body) = 3
         /\ messages[i].body[1].blk = "tool_call"
         /\ messages[i].body[2].blk = "tool_result"
         /\ messages[i].body[2].title = <<"notebook:run-cell">>
         /\ messages[i].body[3].blk = "thinking"
         /\ messages[i].body[3].content = Done

\* C25: listCommandCompletions returns exactly the known commands whose name
\* starts with the token of the current word, the token being the slash the
\* word starts with and the \w characters that follow it: '/clear' for every
\* token that is a prefix of '/clear', and the empty list when the word is
\* undefined, does not start with '/', or has a token that is no prefix of
\* '/clear'.
C25_CompletionsOfToken ==
  \A list \in completions :
    IF \E w \in currentWord : w # <<>> /\ w[1] = "/"
    THEN \E w \in currentWord, k \in 1..Len(CLEAR) + 2 :
           /\ k <= Len(w)
           /\ \A i \in 2..k : w[i] \in WordChars
           /\ k = Len(w) \/ w[k + 1] \notin WordChars
           /\ LET token == SubSeq(w, 1, k)
                  Known(cmd) == IsPrefix(token, cmd.name)
              IN /\ list = SelectSeq(slash_commands, Known)
                 /\ IF IsPrefix(token, CLEAR)
                    THEN Len(list) = 1 /\ list[1].name = CLEAR
                    ELSE list = <<>>
    ELSE list = <<>>

\* the completions of the word '/cl-c', whose token is '/cl', were listed
C25_Witness ==
  /\ currentWord = {<<"/", "c", "l", "-", "c">>}
  /\ completions = {slash_commands}

\* C26: the execution function of every tool of the catalog returns, and
\* when the command or request it runs fails, what it returns is a payload
\* that carries the error.
C26_ToolsReturnFailurePayload ==
  \A call \in toolCall, out \in toolReturn :
    /\ ~out.threw
    /\ call.outcome # "ok" => out.error # <<>>

C32_PlaceholderNeverEmpty ==
  \A i \in 1..Len(messages) :
    (/\ messages[i].sender = personaName
     /\ messages[i].turn \in 1..Len(turns)
     /\ turns[messages[i].turn].kind = "agent")
      => messages[i].body # <<>>

\* the Tool entries of the events, in the order of their arrival
RECURSIVE ToolEntries(_)
ToolEntries(events) ==
  IF events = <<>> THEN <<>>
  ELSE SelectSeq(Head(events).messages, LAMBDA m : m.role = "tool")
         \o ToolEntries(Tail(events))

\* the tool calls of the AI entries of the events, in the order of arrival
RECURSIVE CallsOf(_)
CallsOf(msgs) ==
  IF msgs = <<>> THEN <<>>
  ELSE (IF Head(msgs).role = "ai" THEN Head(msgs).tool_calls ELSE <<>>)
         \o CallsOf(Tail(msgs))
RECURSIVE ToolCallsSeen(_)
ToolCallsSeen(events) ==
  IF events = <<>> THEN <<>>
  ELSE CallsOf(Head(events).messages) \o ToolCallsSeen(Tail(events))

\* the title the block of a Tool entry is to carry
TitleOf(m) ==
  IF JsonCommand(m.content) # <<>> THEN JsonCommand(m.content)
  ELSE IF m.name # "" THEN <<m.name>>
  ELSE <<"Tool Result">>

\* the tool-result blocks of a body, in their order
ResultBlocks(body) == SelectSeq(body, LAMBDA b : b.blk = "tool_result")

\* C33: in the body an agent-mode turn has on display, the block of every
\* Tool entry received so far is titled with the command its content
\* declares, else with the tool's name, else with 'Tool Result', and its
\* content is the entry's raw text; the body has no other tool-result block.
C33_ResultTitle ==
  \A t \in 1..Len(turns) :
    (Streaming(t) /\ turns[t].kind = "agent")
      => \A i \in Assistant(messages, t) :
           LET entries == ToolEntries(turns[t].consumed)
               blocks == ResultBlocks(messages[i].body)
           IN /\ \A k \in 1..Len(entries) :
                   \E p \in 1..Len(blocks) :
                     /\ blocks[p].title = TitleOf(entries[k])
                     /\ blocks[p].content = entries[k].content
              /\ \A p \in 1..Len(blocks) :
                   \E k \in 1..Len(entries) :
                     /\ blocks[p].title = TitleOf(entries[k])
                     /\ blocks[p].content = entries[k].content

\* the items of one type, in the order of the aggregation
ItemsOf(items, type) == SelectSeq(items, LAMBDA it : it.type = type)

\* C34: at every point of an agent-mode turn the tool_call items are, one
\* for one and in order, the tool calls of the AI entries received so far,
\* and the tool_result items are, one for one and in order, the Tool entries
\* received so far, in agent steps and in tool steps alike.
C34_OneItemPerCallAndResult ==
  \A t \in 1..Len(turns) :
    (Streaming(t) /\ turns[t].kind = "agent")
      => LET calls == ToolCallsSeen(turns[t].consumed)
             entries == ToolEntries(turns[t].consumed)
             callItems == ItemsOf(turns[t].items, "tool_call")
             resultItems == ItemsOf(turns[t].items, "tool_result")
         IN /\ Len(callItems) = Len(calls)
            /\ \A k \in 1..Len(calls) : callItems[k].data = calls[k]
            /\ Len(resultItems) = Len(entries)
            /\ \A k \in 1..Len(entries) :
                 resultItems[k].data.content = entries[k].content

\* an AI entry brought two tool calls, an agent step brought one more call
\* with a Tool entry, and a tool step brought a third entry
C34_Witness ==
  \E t \in 1..Len(turns) :
    /\ Streaming(t) /\ turns[t].kind = "agent"
    /\ Len(ItemsOf(turns[t].items, "tool_call")) = 3
    /\ Len(ItemsOf(turns[t].items, "tool_result")) = 2
    /\ \E e \in 1..Len(turns[t].consumed) :
         /\ turns[t].consumed[e].key = "agent"
         /\ \E j \in 1..Len(turns[t].consumed[e].messages) :
              turns[t].consumed[e].messages[j].role = "tool"
    /\ \E e \in 1..Len(turns[t].consumed) : turns[t].consumed[e].key = "tools"

\* C35: a sendMessage that finds no chat model publishes, as the last
\* message, the error message with the registry's diagnostic if the registry
\* has a non-empty one at that moment and with the fallback text if it has
\* none, whether the registry was configured before or after the handler
\* was constructed.
C35_ErrorCarriesDiagnostic ==
  [][\A body \in Bodies :
       (~StartsWith(body, CLEAR) /\ ~reg.chatModel /\ SendMessage(body))
         => /\ messages'[Len(messages')].sender = "ERROR"
            /\ messages'[Len(messages')].body =
                 ErrorBody(IF reg.chatError # <<>> THEN reg.chatError
                           ELSE defaultErrorMessage)]_vars

\* C36: every AI or Tool entry of the history has a Human entry before it:
\* the history never starts with the output of a turn whose user message
\* was cleared, also when the clear runs while the turn is streaming.
C36_OutputAfterHuman ==
  \A i \in 1..Len(history) :
    history[i].role \in {"ai", "tool"}
      => \E j \in 1..(i - 1) : history[j].role = "human"

\* the keys of the documents
SettingKeys == {"AIprovider", "provider", "apiKey", "token"}

\* the elements of a sequence
Range(seq) == {seq[i] : i \in 1..Len(seq)}

\* the fields of the provider settings 'ai' that save is to replace
Secret(ai, doNotSave) ==
  {f \in Range(doNotSave) : ai.kind = "object" /\ Get(ai.members, f) # {}
                                               /\ Get(ai.members, f) # {Str("")}}

\* C37: what save passes to the underlying connector is the document it was
\* given with, under 'AIprovider', the placeholder in place of every field of
\* doNotSave that is defined and not empty; every other setting has the
\* value it had; a call that rejects passes nothing on.
C37_SaveNeverForwardsSecrets ==
  \A c \in saveCall : \A r \in saveReturn :
    IF r.threw THEN r.forwarded = <<>>
    ELSE /\ Len(r.forwarded) = 1
         /\ LET before == ParseValue(c.raw)
                after == ParseValue(r.forwarded[1])
            IN IF before.kind # "object" THEN after = before
               ELSE /\ after.kind = "object"
                    /\ \A key \in SettingKeys \ {"AIprovider"} :
                         Get(after.members, key) = Get(before.members, key)
                    /\ \A ai \in Get(before.members, "AIprovider") :
                         IF ai.kind # "object"
                         THEN Get(after.members, "AIprovider") = {ai}
                         ELSE \E saved \in Get(after.members, "AIprovider") :
                                /\ saved.kind = "object"
                                /\ \A f \in SettingKeys :
                                     Get(saved.members, f) =
                                       IF f \in Secret(ai, c.doNotSave)
                                       THEN {Str(SECRETS_REPLACEMENT)}
                                       ELSE Get(ai.members, f)
                    /\ Get(before.members, "AIprovider") = {}
                         => Get(after.members, "AIprovider") = {}

\* a document with an apiKey given twice and a token was saved with both
\* fields in doNotSave: both are replaced, the provider name and the other
\* plugin's setting are kept
C37_Witness ==
  \E c \in saveCall : \E r \in saveReturn :
    /\ c.doNotSave = <<"apiKey", "token">>
    /\ ~r.threw
    /\ \E ai \in Get(ParseValue(c.raw).members, "AIprovider") :
         /\ ai.kind = "object"
         /\ Get(ai.members, "apiKey") = {Str("sk-2")}
         /\ Get(ai.members, "token") = {Str("tk-1")}
    /\ \E saved \in Get(ParseValue(r.forwarded[1]).members, "AIprovider") :
         /\ Get(saved.members, "apiKey") = {Str(SECRETS_REPLACEMENT)}
         /\ Get(saved.members, "token") = {Str(SECRETS_REPLACEMENT)}
         /\ Get(saved.members, "provider") = {Str("OpenAI")}
    /\ Get(ParseValue(r.forwarded[1]).members, "apiKey") = {Str("other")}

\* the keys of a tool map
Keys(tools) == {tool.key : tool \in tools}

\* the setting is an object whose 'enabled' is the boolean true
IsEnabled(setting) == setting.type = "object" /\ setting.enabled = "true"

\* C38: the map createProviderTools returns has the key web_search iff the
\* provider is openai or anthropic and webSearch.enabled is the boolean
\* true, web_fetch iff the provider is anthropic and webFetch.enabled is the
\* boolean true, google_search iff the provider is google, webSearch.enabled
\* is the boolean true and hasFunctionTools is false, and no other key; it
\* is empty when customSettings is not an object.
C38_ProviderToolKeys ==
  \A o \in toolContext : \A tools \in providerTools :
    LET record == o.customSettings.type = "object"
    IN /\ "web_search" \in Keys(tools)
            <=> /\ record
                /\ o.provider \in {"openai", "anthropic"}
                /\ IsEnabled(o.customSettings.webSearch)
       /\ "web_fetch" \in Keys(tools)
            <=> /\ record
                /\ o.provider = "anthropic"
                /\ IsEnabled(o.customSettings.webFetch)
       /\ "google_search" \in Keys(tools)
            <=> /\ record
                /\ o.provider = "google"
                /\ IsEnabled(o.customSettings.webSearch)
                /\ ~o.hasFunctionTools
       /\ Keys(tools) \subseteq {"web_search", "web_fetch", "google_search"}
       /\ Cardinality(tools) = Cardinality(Keys(tools))

\* anthropic with both settings enabled gets both tools
C38_Witness ==
  \E o \in toolContext : \E tools \in providerTools :
    /\ o.provider = "anthropic"
    /\ o.hasFunctionTools
    /\ Keys(tools) = {"web_search", "web_fetch"}

\* the input URL parses and its protocol is http: or https:
Fetchable(url) == \E u \in ParseURL(url) : u.protocol \in {"http:", "https:"}

\* C39: the browser fetch tool issues a request only for a URL that parses
\* and has the protocol http: or https:, and then one request and one timer;
\* for any other input it returns invalid_url or unsupported_protocol with no
\* request issued and no timer started; once it has returned, every timer it
\* started is cleared.
C39_FetchOnlyHttp ==
  /\ fetchRun.requests # <<>> => Fetchable(fetchRun.url)
  /\ Len(fetchRun.requests) <= 1
  /\ Len(fetchRun.timers) = Len(fetchRun.requests)
  /\ (fetchRun.pc = "returned" /\ ~Fetchable(fetchRun.url))
       => /\ fetchRun.result =
               IF ParseURL(fetchRun.url) = {} THEN "invalid_url"
               ELSE "unsupported_protocol"
          /\ fetchRun.requests = <<>>
          /\ fetchRun.timers = <<>>
  /\ (fetchRun.pc = "returned" /\ Fetchable(fetchRun.url))
       => /\ fetchRun.result \notin {"invalid_url", "unsupported_protocol"}
          /\ Len(fetchRun.requests) = 1
  /\ fetchRun.pc = "returned"
       => \A i \in 1..Len(fetchRun.timers) : fetchRun.timers[i].cleared

\* a request for an https URL written in upper case timed out: its timer
\* fired, the tool returned the timeout payload and cleared the timer
C39_Witness ==
  /\ fetchRun.pc = "returned"
  /\ fetchRun.url = <<"HTTPS", ":", "//", "a.org", "/x">>
  /\ fetchRun.requests = <<<<"https", ":", "//", "a.org", "/x">>>>
  /\ fetchRun.result = "timeout"
  /\ Len(fetchRun.timers) = 1
  /\ fetchRun.timers[1].fired /\ fetchRun.timers[1].cleared
  /\ fetchRun.timers[1].ms = MAX_TIMEOUT_MS
====
